---- MODULE Spec2Model ----
(***************************************************************************)
(* Model of the streaming data plane of crypto-predict:                    *)
(*   - the candle operator (services/candles/candles/stream.py) reducing   *)
(*     trades into OHLCV candles over tumbling windows, and                *)
(*   - the technical-analysis operator (services/ta/ta/stream.py) keeping  *)
(*     a bounded buffer of candles per key.                                *)
(* Prices and volumes are integers standing for the floats of the source;  *)
(* None (an unset start/end) is written -1, timestamps are >= 0.           *)
(***************************************************************************)
EXTENDS Integers, Sequences, FiniteSets, TLC

\* ------------------------------------------------------------------ bounds
\* number of trades the candle operator consumes in a run
MaxTrades == 3

\* the setting max_candles_in_state of the TA service (default 60, read from
\* the environment), kept small here
MAX_CANDLES_IN_STATE == 3

\* ------------------------------------------------------------ input domains
Symbols == {"XRPUSD", "BTCUSD"}
Exchanges == {"KRAKEN"}
\* (price, volume) of the trades on the trades topic; Trade has no validator,
\* so a non-positive volume parses like any other float
Lots == { <<1, 2>>, <<2, -1>>, <<3, 1>> }
\* message times: two in the first 1m window, its end, and the end of the
\* first 5m window
Timestamps == {1000, 59000, 60000, 300000}
Timeframes == {"1m", "5m"}
EmissionModes == {"LIVE", "FULL"}

None == -1

Max(a, b) == IF a >= b THEN a ELSE b
Min(a, b) == IF a <= b THEN a ELSE b

\* ---------------------------------------------------------------- variables
VARIABLES
    settings,          \* candles_settings(): timeframe and emission_mode
    windows,           \* per key: the windows of the tumbling-window store
    latest_timestamp,  \* per key: largest message time seen by the window
    trades_topic,      \* the trades consumed so far, in consumption order
    candles_topic,     \* the candles produced to the output topic, in order
    emitted_by,        \* for each produced candle, the index of the trade
                       \* whose processing produced it
    ta_state,          \* per key: the list stored under "candles" in the
                       \* state of the TA operator
    ta_topic,          \* the records produced to the ta topic, in order
    ta_status,         \* "running", or "failed" once an exception has left
                       \* the stream application
    ta_consumed,       \* number of candles the TA operator has processed
    ta_popped,         \* number of times the oldest candle was removed
    ta_branch,         \* what the TA operator did with the last candle it took
    calc_args,         \* TechnicalAnalysis.calc on its own: the candles it is given
    calc_result,       \* and what it returned, once called
    news_pc,           \* live news source: where its run loop stands
    news_last,         \* its local variable last
    news_state,        \* the value committed under the state key "last"
    news_topic,        \* the messages it produced that were not lost
    news_flushed,      \* how many of them a flush or a restart has settled
    news_fetched,      \* what get_news returned to the last poll
    news_polls,        \* number of polls so far
    rest_tape,         \* Kraken: the times of the trades of each pair, oldest first
    rest_now,          \* the wall clock, in the unit of the cursor
    rest_stop_ns,      \* the wall clock when stream_trades was called
    rest_since_ns,     \* stream_trades: since_ns
    rest_pc,           \* fetch_all_trades of each pair: fetching, done, failed
    rest_last,         \* its local variable last
    rest_pages,        \* the requests it sent, with the pages it got
    rest_fetched,      \* its list fetched_trades
    rest_stream,       \* stream_trades: gathering, done
    rest_yielded,      \* the trades stream_trades has yielded
    ws_status,         \* Kraken websocket stream_trades: open, ended, raised
    ws_close,          \* how the connection was closed: none, ok, error
    ws_frames,         \* the messages ws.recv() has returned
    ws_yielded,        \* the trades stream_trades has yielded
    sa_status,         \* sentiment analyzer: idle, ready, raised
    sa_analyses,       \* the LLM outputs it got and the analyses it returned
    sa_encoded,        \* encoded() of each analysis
    cg_status,         \* a consumer group without committed offsets: idle, created, started
    cg_flag,           \* the ingestion-mode flag its service reads: trades, news
    cg_mode,           \* the value of the flag
    cg_policy,         \* auto_offset_reset of its Application
    cg_log,            \* number of records in its input topic
    cg_start,          \* number of records in the topic when it started
    cg_first,          \* the offset of the first record it reads
    cg_position,       \* the offset of the next record it reads
    tp_status,         \* the trades services of the backfill jobs: idle, running
    tp_produced,       \* what their tasks produced: topic name, ingestion, job id
    sd_service,        \* the service whose lifespan ends: candles, ta
    sd_pc,             \* shutdown: where it stands
    sd_stop_raised,    \* whether stream_app.stop() raised
    sd_worker,         \* stream_proc: running, stopping, exited, killed
    sd_clock,          \* seconds join() has waited
    sd_calls,          \* the calls shutdown has made, in order
    np_pages,          \* Cryptopanic: the pages of posts it serves, first page first
    np_pc,             \* get_news: idle, fetching, returned
    np_url,            \* the page its variable url points to
    np_requests,       \* the requests it sent: page and outcome
    np_slept,          \* seconds slept by get_news_batch
    np_stories,        \* its list stories, sorted once it has returned
    sk_sink,           \* the sink of the stream: hopsworks, elasticsearch, none
    sk_partition,      \* topic and partition of the input the sink is fed from
    sk_committed,      \* the committed offset of the partition
    sk_position,       \* the offset of the next message the consumer reads
    sk_batch,          \* the offsets of the SinkBatch of the partition
    sk_written,        \* the offsets of the records the store holds
    sk_raised,         \* what the last write raised
    sk_failed,         \* the offsets of the batches whose write timed out
    sk_paused,         \* whether the partition is paused
    cu_pc,             \* Candle methods on their own: idle, ready, updated, closed
    cu_candle,         \* the candle they are called on
    cu_trades,         \* the two trades t1 and t2
    cu_window,         \* the arguments start and end of close_window
    cu_results,        \* update(t1) then update(t2), and update(t2) then update(t1)
    cu_closed,         \* close_window applied once, and applied twice
    rt_pc,             \* a record sent through a topic: idle, ready, parsed
    rt_kind,           \* its class: Trade, Candle, TechnicalAnalysis, NewsStory
    rt_original,       \* the object that is unpacked
    rt_wire,           \* the JSON value of the message
    rt_parsed,         \* the object parsed from the message
    hn_pc,             \* historical news source: idle, head (of while), rows, finished
    hn_file,           \* the rows of the CSV file
    hn_running,        \* Source.running
    hn_rows,           \* the rows of this pass not yet produced
    hn_passes,         \* how often the file was read
    hn_produced        \* the messages produced

candle_vars == <<settings, windows, latest_timestamp, trades_topic,
                 candles_topic, emitted_by>>
ta_vars == <<ta_state, ta_topic, ta_status, ta_consumed, ta_popped,
             ta_branch>>
calc_vars == <<calc_args, calc_result>>
news_vars == <<news_pc, news_last, news_state, news_topic, news_flushed,
               news_fetched, news_polls>>
rest_vars == <<rest_tape, rest_now, rest_stop_ns, rest_since_ns, rest_pc,
               rest_last, rest_pages, rest_fetched, rest_stream, rest_yielded>>
ws_vars == <<ws_status, ws_close, ws_frames, ws_yielded>>
\* the operators and sources above, and the parts that follow them
core_vars == <<candle_vars, ta_vars, calc_vars, news_vars, rest_vars>>
sa_vars == <<sa_status, sa_analyses, sa_encoded>>
cg_vars == <<cg_status, cg_flag, cg_mode, cg_policy, cg_log, cg_start, cg_first, cg_position>>
tp_vars == <<tp_status, tp_produced>>
sd_vars == <<sd_service, sd_pc, sd_stop_raised, sd_worker, sd_clock, sd_calls>>
np_vars == <<np_pages, np_pc, np_url, np_requests, np_slept, np_stories>>
sk_vars == <<sk_sink, sk_partition, sk_committed, sk_position, sk_batch, sk_written, sk_raised, sk_failed, sk_paused>>
cu_vars == <<cu_pc, cu_candle, cu_trades, cu_window, cu_results, cu_closed>>
rt_vars == <<rt_pc, rt_kind, rt_original, rt_wire, rt_parsed>>
hn_vars == <<hn_pc, hn_file, hn_running, hn_rows, hn_passes, hn_produced>>
aux_vars == <<ws_vars, sa_vars, cg_vars, tp_vars, sd_vars, np_vars, sk_vars, cu_vars, rt_vars, hn_vars>>
beside_ws == <<core_vars, sa_vars, cg_vars, tp_vars, sd_vars, np_vars, sk_vars, cu_vars, rt_vars, hn_vars>>
beside_sa == <<core_vars, ws_vars, cg_vars, tp_vars, sd_vars, np_vars, sk_vars, cu_vars, rt_vars, hn_vars>>
beside_cg == <<core_vars, ws_vars, sa_vars, tp_vars, sd_vars, np_vars, sk_vars, cu_vars, rt_vars, hn_vars>>
beside_tp == <<core_vars, ws_vars, sa_vars, cg_vars, sd_vars, np_vars, sk_vars, cu_vars, rt_vars, hn_vars>>
beside_sd == <<core_vars, ws_vars, sa_vars, cg_vars, tp_vars, np_vars, sk_vars, cu_vars, rt_vars, hn_vars>>
beside_np == <<core_vars, ws_vars, sa_vars, cg_vars, tp_vars, sd_vars, sk_vars, cu_vars, rt_vars, hn_vars>>
beside_sk == <<core_vars, ws_vars, sa_vars, cg_vars, tp_vars, sd_vars, np_vars, cu_vars, rt_vars, hn_vars>>
beside_cu == <<core_vars, ws_vars, sa_vars, cg_vars, tp_vars, sd_vars, np_vars, sk_vars, rt_vars, hn_vars>>
beside_rt == <<core_vars, ws_vars, sa_vars, cg_vars, tp_vars, sd_vars, np_vars, sk_vars, cu_vars, hn_vars>>
beside_hn == <<core_vars, ws_vars, sa_vars, cg_vars, tp_vars, sd_vars, np_vars, sk_vars, cu_vars, rt_vars>>
vars == <<settings, windows, latest_timestamp, trades_topic, candles_topic,
          emitted_by, ta_state, ta_topic, ta_status, ta_consumed, ta_popped,
          ta_branch, calc_args, calc_result, news_pc, news_last, news_state,
          news_topic, news_flushed, news_fetched, news_polls, rest_tape,
          rest_now, rest_stop_ns, rest_since_ns, rest_pc, rest_last,
          rest_pages, rest_fetched, rest_stream, rest_yielded, ws_status,
          ws_close, ws_frames, ws_yielded, sa_status, sa_analyses,
          sa_encoded, cg_status, cg_flag, cg_mode, cg_policy, cg_log,
          cg_start, cg_first, cg_position, tp_status, tp_produced,
          sd_service, sd_pc, sd_stop_raised, sd_worker, sd_clock, sd_calls,
          np_pages, np_pc, np_url, np_requests, np_slept, np_stories,
          sk_sink, sk_partition, sk_committed, sk_position, sk_batch,
          sk_written, sk_raised, sk_failed, sk_paused, cu_pc, cu_candle,
          cu_trades, cu_window, cu_results, cu_closed, rt_pc, rt_kind,
          rt_original, rt_wire, rt_parsed, hn_pc, hn_file, hn_running,
          hn_rows, hn_passes, hn_produced>>

\* ------------------------------------------------------------ domain/candles
\* CandleTimeframe.to_sec
to_sec(tf) ==
    CASE tf = "1m"  -> 60 * 1
      [] tf = "5m"  -> 60 * 5
      [] tf = "15m" -> 60 * 15
      [] tf = "30m" -> 60 * 30
      [] tf = "1h"  -> 60 * 60 * 1
      [] tf = "4h"  -> 60 * 60 * 4
      [] tf = "1D"  -> 60 * 60 * 24
      [] tf = "1W"  -> 60 * 60 * 24 * 7
      [] tf = "1M"  -> 60 * 60 * 24 * 30

\* Trade(symbol, price, volume, timestamp, exchange)
Trade(sym, lot, ts, ex) ==
    [symbol |-> sym, price |-> lot[1], volume |-> lot[2], timestamp |-> ts,
     exchange |-> ex]

Trades ==
    { Trade(s, l, ts, ex) : s \in Symbols, l \in Lots, ts \in Timestamps,
                            ex \in Exchanges }

\* Candle.init: start and end keep their default None
init(timeframe, first_trade) ==
    [symbol    |-> first_trade.symbol,
     timeframe |-> timeframe,
     exchange  |-> first_trade.exchange,
     open      |-> first_trade.price,
     high      |-> first_trade.price,
     low       |-> first_trade.price,
     close     |-> first_trade.price,
     volume    |-> first_trade.volume,
     timestamp |-> first_trade.timestamp,
     start     |-> None,
     end       |-> None]

\* volume is a float: a sum keeps FloatPrecision significant bits (53 in the
\* program) and is rounded to the nearest such number, ties to the even one
FloatPrecision == 3
RECURSIVE pow2(_)
pow2(n) == IF n = 0 THEN 1 ELSE 2 * pow2(n - 1)
\* the distance between neighbouring floats at the magnitude m
RECURSIVE ulp(_)
ulp(m) == IF m < pow2(FloatPrecision) THEN 1 ELSE 2 * ulp(m \div 2)
round_to_float(x) ==
    LET m  == IF x < 0 THEN -x ELSE x
        u  == ulp(m)
        q  == m \div u
        r  == m % u
        up == 2 * r > u \/ (2 * r = u /\ q % 2 = 1)
        v  == (IF up THEN q + 1 ELSE q) * u
    IN  IF x < 0 THEN -v ELSE v
\* a + b of two floats
float_add(a, b) == round_to_float(a + b)

\* a close_window that also moves the timestamp to the end of the window
close_window_stamping(self, start, end) ==
    [self EXCEPT !.start = start, !.end = end, !.timestamp = end]

\* Candle.close_window
close_window(self, start, end) ==
    [self EXCEPT !.start = start, !.end = end]

\* an update with max and min swapped
update_swapped(self, trade) ==
    [self EXCEPT !.high      = Min(self.high, trade.price),
                 !.low       = Max(self.low, trade.price),
                 !.close     = trade.price,
                 !.volume    = float_add(self.volume, trade.volume),
                 !.timestamp = trade.timestamp]

\* an update that leaves close at the previous trade's price
update_stale_close(self, trade) ==
    [self EXCEPT !.high      = Max(self.high, trade.price),
                 !.low       = Min(self.low, trade.price),
                 !.volume    = float_add(self.volume, trade.volume),
                 !.timestamp = trade.timestamp]

\* an update that overwrites the volume instead of accumulating it
update_overwrites_volume(self, trade) ==
    [self EXCEPT !.high      = Max(self.high, trade.price),
                 !.low       = Min(self.low, trade.price),
                 !.close     = trade.price,
                 !.volume    = trade.volume,
                 !.timestamp = trade.timestamp]

\* an update whose high is the price of the trade
update_high_is_price(self, trade) ==
    [self EXCEPT !.high      = trade.price,
                 !.low       = Min(self.low, trade.price),
                 !.close     = trade.price,
                 !.volume    = float_add(self.volume, trade.volume),
                 !.timestamp = trade.timestamp]

\* Candle.update
update(self, trade) ==
    [self EXCEPT !.high      = Max(self.high, trade.price),
                 !.low       = Min(self.low, trade.price),
                 !.close     = trade.price,
                 !.volume    = float_add(self.volume, trade.volume),
                 !.timestamp = trade.timestamp]

\* ------------------------------------------------- candles/stream.py operator
\* the time the broker assigned to the n-th message of the input topic: the
\* wall clock of its append, later than the payload times of the trades
broker_time(n) == 600000 + n

\* a timestamp extractor that keeps broker time
extract_ts_broker(value, timestamp) == timestamp

\* timestamp extractor of the input topic: the payload's timestamp, whatever
\* the broker's (headers and timestamp_type are not read either)
extract_ts(value, timestamp) == value.timestamp

\* tumbling_window(duration_ms=settings.timeframe.to_sec() * 1000)
duration_ms == to_sec(settings.timeframe) * 1000

\* windows (start, end]: a message at the end of a window falls into it
window_start_end_inclusive(ts) == (ts - 1) - ((ts - 1) % duration_ms)

\* the window [start, end) a message time falls into
window_start(ts) == ts - (ts % duration_ms)
window_end(ts) == window_start(ts) + duration_ms

\* reduce(initializer, reducer): the new value of the window of a trade
reduce(current, trade) ==
    IF current = {}
    THEN init(settings.timeframe, trade)
    ELSE update((CHOOSE w \in current : TRUE).value, trade)

\* the windows of a set, as a sequence in increasing order of start
RECURSIVE by_start(_)
by_start(ws) ==
    IF ws = {} THEN <<>>
    ELSE LET first == CHOOSE w \in ws : \A o \in ws : w.start <= o.start
         IN  <<first>> \o by_start(ws \ {first})

\* One message through the tumbling window, as the stream library runs it
\* with the default grace of 0 ms and state kept per message key: a trade
\* whose window has already expired for its key is dropped; otherwise its
\* window is reduced; then every window of the key that ended at or before
\* the latest message time is expired and removed from the store.
process_window(key, trade, timestamp) ==
    LET ts       == extract_ts(trade, timestamp)
        start    == window_start(ts)
        end      == window_end(ts)
        latest   == Max(ts, latest_timestamp[key])
        max_expired_window_start == latest - duration_ms
        late     == start <= max_expired_window_start
        current  == {w \in windows[key] : w.start = start}
        new      == [start |-> start, end |-> end,
                     value |-> reduce(current, trade)]
        stored   == IF late THEN windows[key]
                    ELSE (windows[key] \ current) \cup {new}
        expired  == {w \in stored : w.start <= max_expired_window_start}
    IN  [latest  |-> latest,
         updated |-> IF late THEN <<>> ELSE <<new>>,
         expired |-> by_start(expired),
         store   |-> stored \ expired]

\* an operator that emits on window close whatever the mode
emission_final_only(mode, result) == result.expired

\* .current() emits the updated windows, .final() the expired ones
emission(mode, result) ==
    IF mode = "LIVE" THEN result.updated ELSE result.expired

\* the post-processing step: stamp the window bounds on the candle
stamp(result) == close_window(result.value, result.start, result.end)

\* a producer that puts the new records before the old ones
to_topic_front(topic, records) == records \o topic

\* to_topic: the records are appended to the output topic in order
to_topic(topic, records) == topic \o records

\* generate_candles_from_trades: one trade of the input topic through the
\* whole topology, up to the output topic
generate_candles_from_trades(trade) ==
    /\ Len(trades_topic) < MaxTrades
    /\ LET key == trade.symbol
           r   == process_window(key, trade,
                                 broker_time(Len(trades_topic) + 1))
           out == emission(settings.emission_mode, r)
       IN  /\ trades_topic' = Append(trades_topic, trade)
           /\ latest_timestamp' = [latest_timestamp EXCEPT ![key] = r.latest]
           /\ windows' = [windows EXCEPT ![key] = r.store]
           /\ candles_topic' =
                to_topic(candles_topic,
                         [i \in 1..Len(out) |->
                            [key |-> key, value |-> stamp(out[i])]])
           /\ emitted_by' =
                to_topic(emitted_by,
                         [i \in 1..Len(out) |-> Len(trades_topic) + 1])
    /\ UNCHANGED settings
    /\ UNCHANGED ta_vars
    /\ UNCHANGED calc_vars
    /\ UNCHANGED news_vars
    /\ UNCHANGED rest_vars
    /\ UNCHANGED aux_vars

\* ---------------------------------------------------------- domain/candles
\* the None of an optional candle
NoCandle == [none |-> TRUE]

\* a compatibility that also asks for the same exchange
is_compatible_same_exchange(self, other) ==
    IF other = NoCandle THEN FALSE
    ELSE /\ self.symbol = other.symbol
         /\ self.timeframe = other.timeframe
         /\ self.exchange = other.exchange

\* Candle.is_compatible (other is None when the state is empty)
is_compatible(self, other) ==
    IF other = NoCandle THEN FALSE
    ELSE self.symbol = other.symbol /\ self.timeframe = other.timeframe

\* a window test that also asks for the same exchange
is_same_window_same_exchange(self, other) ==
    IF other = NoCandle THEN FALSE
    ELSE /\ is_compatible(self, other)
         /\ self.exchange = other.exchange
         /\ self.start = other.start
         /\ self.end = other.end

\* Candle.is_same_window
is_same_window(self, other) ==
    IF other = NoCandle THEN FALSE
    ELSE /\ is_compatible(self, other)
         /\ self.start = other.start
         /\ self.end = other.end

\* ------------------------------------------------------ ta/stream.py operator
\* the candles a TA partition may receive: any symbol and timeframe, windows
\* in any order
TAStarts == {0, 1}
\* exchange and price of a candle: two candles of one exchange that differ in
\* price, and one of another exchange
TAQuotes == { <<"KRAKEN", 1>>, <<"KRAKEN", 2>>, <<"BINANCE", 1>> }
TACandle(sym, tf, ex, n, px) ==
    [symbol    |-> sym,
     timeframe |-> tf,
     exchange  |-> ex,
     open      |-> px, high |-> px, low |-> px, close |-> px,
     volume    |-> 1,
     timestamp |-> n * to_sec(tf) * 1000,
     start     |-> n * to_sec(tf) * 1000,
     end       |-> (n + 1) * to_sec(tf) * 1000]
TACandles ==
    { TACandle(sym, tf, q[1], n, q[2]) :
        sym \in Symbols, tf \in Timeframes, n \in TAStarts, q \in TAQuotes }

\* get_candle_state: state.get("candles", default=[])
get_candle_state(state) == state

\* get_last_candle
get_last_candle(state) ==
    LET candles_state == get_candle_state(state)
    IN  IF candles_state # <<>> THEN candles_state[Len(candles_state)]
        ELSE NoCandle

\* a filter that lets every candle through
is_compatible_with_last_candle_if_any_unfiltered(latest, state) ==
    TRUE

\* is_compatible_with_last_candle_if_any
is_compatible_with_last_candle_if_any(latest, state) ==
    LET last_candle == get_last_candle(state)
    IN  last_candle = NoCandle \/ is_compatible(latest, last_candle)

\* an update that never writes over the last candle
update_state_always_appends(latest, state) ==
    LET candles_state == get_candle_state(state)
        placed        == Append(candles_state, latest)
    IN  IF Len(placed) > MAX_CANDLES_IN_STATE THEN Tail(placed) ELSE placed

\* an update that removes the newest buffered candle when the list is full
update_state_evicts_newest(latest, state) ==
    LET candles_state == get_candle_state(state)
        last_candle   == get_last_candle(state)
    IN  IF is_same_window(latest, last_candle)
        THEN [candles_state EXCEPT ![Len(candles_state)] = latest]
        ELSE IF Len(candles_state) + 1 > MAX_CANDLES_IN_STATE
        THEN Append(SubSeq(candles_state, 1, Len(candles_state) - 1), latest)
        ELSE Append(candles_state, latest)

\* an update that makes room before appending instead of trimming after
update_state_trims_before_append(latest, state) ==
    LET candles_state == get_candle_state(state)
        last_candle   == get_last_candle(state)
        trimmed       == IF Len(candles_state) > MAX_CANDLES_IN_STATE
                         THEN Tail(candles_state) ELSE candles_state
    IN  IF is_same_window(latest, last_candle)
        THEN [trimmed EXCEPT ![Len(trimmed)] = latest]
        ELSE Append(trimmed, latest)

\* update_state_with_latest: the list set under "candles"
update_state_with_latest(latest, state) ==
    LET candles_state == get_candle_state(state)
        last_candle   == get_last_candle(state)
        placed        == IF is_same_window(latest, last_candle)
                         THEN [candles_state EXCEPT
                                 ![Len(candles_state)] = latest]
                         ELSE Append(candles_state, latest)
    IN  IF Len(placed) > MAX_CANDLES_IN_STATE THEN Tail(placed) ELSE placed

\* the parameters of TechnicalAnalysis.calc
calc_params == {"candle", "high", "low", "close", "volume"}

\* What talib.stream returns: a float when the array is long enough for the
\* indicator, and otherwise the float NaN its output starts as (not None).
\* The values themselves are left out: a computed value is "float".
NaN == "NaN"
\* the None of an optional indicator field (float | None)
NoValue == "None"

\* stream.SMA needs timeperiod values
stream_SMA(real, timeperiod) ==
    IF Len(real) >= timeperiod THEN "float" ELSE NaN

\* stream.RSI needs timeperiod differences, timeperiod + 1 values
stream_RSI(real, timeperiod) ==
    IF Len(real) > timeperiod THEN "float" ELSE NaN

\* stream.MACD needs the slow average and then the signal average of it
stream_MACD(real, fastperiod, slowperiod, signalperiod) ==
    IF Len(real) >= slowperiod + signalperiod - 1 THEN "float" ELSE NaN

\* RSI.calc_rsi
calc_rsi(close) ==
    [rsi_9  |-> stream_RSI(close, 9),
     rsi_14 |-> stream_RSI(close, 14),
     rsi_21 |-> stream_RSI(close, 21),
     rsi_28 |-> stream_RSI(close, 28)]

\* MACD.calc_macd with its default periods
calc_macd(close) ==
    [macd        |-> stream_MACD(close, 12, 26, 9),
     macd_signal |-> stream_MACD(close, 12, 26, 9),
     macd_hist   |-> stream_MACD(close, 12, 26, 9)]

\* SMA.calc_sma
calc_sma(close) ==
    [sma_7  |-> stream_SMA(close, 7),
     sma_14 |-> stream_SMA(close, 14),
     sma_21 |-> stream_SMA(close, 21),
     sma_28 |-> stream_SMA(close, 28)]

\* TechnicalAnalysis.calc, called with keyword arguments: a keyword that is
\* no parameter, or a parameter left without argument, is a TypeError;
\* otherwise the record carries the candle's attributes, the RSI, MACD and SMA
\* fields, and the series the other indicators are computed from
calc(kwargs) ==
    IF DOMAIN kwargs # calc_params THEN "TypeError"
    ELSE [candle |-> kwargs.candle,
          rsi    |-> calc_rsi(kwargs.close),
          macd   |-> calc_macd(kwargs.close),
          sma    |-> calc_sma(kwargs.close),
          high   |-> kwargs.high,
          low    |-> kwargs.low,
          close  |-> kwargs.close,
          volume |-> kwargs.volume]

series(candles_state, field) ==
    [i \in 1..Len(candles_state) |->
        CASE field = "high"   -> candles_state[i].high
          [] field = "low"    -> candles_state[i].low
          [] field = "close"  -> candles_state[i].close
          [] field = "volume" -> candles_state[i].volume]

\* do_ta_for_latest: the call TechnicalAnalysis.calc(candle=, high_values=,
\* low_values=, close_values=, volume_values=)
do_ta_for_latest(latest, state) ==
    LET candles_state == get_candle_state(state)
    IN  calc([x \in {"candle", "high_values", "low_values", "close_values",
                     "volume_values"} |->
                CASE x = "candle"        -> latest
                  [] x = "high_values"   -> series(candles_state, "high")
                  [] x = "low_values"    -> series(candles_state, "low")
                  [] x = "close_values"  -> series(candles_state, "close")
                  [] x = "volume_values" -> series(candles_state, "volume")])

\* the oldest candle was removed between two values of the list
popped(old, new) ==
    /\ old # <<>>
    /\ Len(new) = Len(old)
    /\ SubSeq(new, 1, Len(new) - 1) = Tail(old)

\* The path a candle takes through steps 3 and 4: rejected by the filter
\* (stream.py 75-81), written over the last candle (104-106), appended (107-109)
\* or appended with the oldest candle popped (111-112); with the key of the
\* message and the last candle its state held when the message arrived.
branch(key, latest, state) ==
    [path |-> IF ~is_compatible_with_last_candle_if_any(latest, state)
              THEN "dropped"
              ELSE IF is_same_window(latest, get_last_candle(state))
              THEN "replaced"
              ELSE IF Len(state) + 1 > MAX_CANDLES_IN_STATE THEN "evicted"
              ELSE "appended",
     key |-> key,
     last_candle |-> get_last_candle(state)]

\* do_ta_from_candles: one message of the candles topic through the whole
\* topology. A candle the filter rejects is dropped; an exception raised by a
\* step leaves stream_app.run(), run_stream logs it and the stream stops with
\* nothing of that message committed (state, offset, output).
do_ta_from_candles ==
    /\ ta_status = "running"
    /\ ta_consumed < Len(candles_topic)
    /\ LET message == candles_topic[ta_consumed + 1]
           key     == message.key
           latest  == message.value
           state   == update_state_with_latest(latest, ta_state[key])
           ta      == do_ta_for_latest(latest, state)
           taken   == branch(key, latest, ta_state[key])
       IN  /\ ta_branch' = IF ta = "TypeError" /\ taken.path # "dropped"
                           THEN [taken EXCEPT !.path = "raised"]
                           ELSE taken
           /\ IF ~is_compatible_with_last_candle_if_any(latest, ta_state[key])
              THEN /\ ta_consumed' = ta_consumed + 1
                   /\ UNCHANGED <<ta_state, ta_topic, ta_status, ta_popped>>
              ELSE IF ta = "TypeError"
              THEN /\ ta_status' = "failed"
                   /\ UNCHANGED <<ta_state, ta_topic, ta_consumed, ta_popped>>
              ELSE /\ ta_consumed' = ta_consumed + 1
                   /\ ta_state' = [ta_state EXCEPT ![key] = state]
                   /\ ta_popped' = ta_popped +
                                  (IF popped(ta_state[key], state) THEN 1 ELSE 0)
                   /\ ta_topic' = Append(ta_topic, [key |-> key, value |-> ta])
                   /\ UNCHANGED ta_status
    /\ UNCHANGED candle_vars
    /\ UNCHANGED calc_vars
    /\ UNCHANGED news_vars
    /\ UNCHANGED rest_vars
    /\ UNCHANGED aux_vars

\* the number of candles fed to the buffer steps in a run
MaxTACandles == MAX_CANDLES_IN_STATE + 1

\* Steps 3 and 4 of the topology applied to the list a key's state holds:
\* .filter(is_compatible_with_last_candle_if_any, stateful=True) ends the
\* processing of a candle it rejects, .apply(update_state_with_latest,
\* stateful=True) sets the list for a candle it accepts.
filter_and_update(latest, state) ==
    IF is_compatible_with_last_candle_if_any(latest, state)
    THEN update_state_with_latest(latest, state)
    ELSE state

\* Steps 3 and 4 of the topology on their own, applied to the state of the
\* message's key, for any candle the partition receives.
buffer_latest(key, latest) ==
    /\ ta_consumed < MaxTACandles
    /\ ta_consumed' = ta_consumed + 1
    /\ ta_branch' = branch(key, latest, ta_state[key])
    /\ LET state == filter_and_update(latest, ta_state[key])
       IN  /\ ta_state' = [ta_state EXCEPT ![key] = state]
           /\ ta_popped' = ta_popped +
                  (IF /\ is_compatible_with_last_candle_if_any(
                            latest, ta_state[key])
                      /\ popped(ta_state[key], state) THEN 1 ELSE 0)
    /\ UNCHANGED <<ta_topic, ta_status>>
    /\ UNCHANGED candle_vars
    /\ UNCHANGED calc_vars
    /\ UNCHANGED news_vars
    /\ UNCHANGED rest_vars
    /\ UNCHANGED aux_vars

\* TechnicalAnalysis.calc on its own, with the arguments bound to its
\* parameters: the latest candle and the four series of a list of candles
MaxSeries == 6
CalcCandles == { TACandle("XRPUSD", "1m", "KRAKEN", 0, px) : px \in {1, 2} }
CalcArgs == UNION { [1..n -> CalcCandles] : n \in 1..MaxSeries }

TechnicalAnalysis_calc ==
    /\ calc_result = <<>>
    /\ calc_result' =
          << calc([x \in calc_params |->
                    CASE x = "candle" -> calc_args[Len(calc_args)]
                      [] x = "high"   -> series(calc_args, "high")
                      [] x = "low"    -> series(calc_args, "low")
                      [] x = "close"  -> series(calc_args, "close")
                      [] x = "volume" -> series(calc_args, "volume")]) >>
    /\ UNCHANGED calc_args
    /\ UNCHANGED candle_vars
    /\ UNCHANGED ta_vars
    /\ UNCHANGED news_vars
    /\ UNCHANGED rest_vars
    /\ UNCHANGED aux_vars

\* --------------------------------------- news/outlets/cryptopanic.py live source
\* the stories the provider may list: published_at is an ISO time string the
\* source compares as a string; the order of such strings is kept, as numbers
MaxPolls == 3
Stories == { [title |-> "A", published_at |-> 1],
             [title |-> "B", published_at |-> 2],
             [title |-> "C", published_at |-> 3],
             [title |-> "D", published_at |-> 4] }

\* the provider lists the stories of a response newest first
RECURSIVE newest_first(_)
newest_first(batch) ==
    IF batch = {} THEN <<>>
    ELSE LET s == CHOOSE x \in batch :
                     \A y \in batch : y.published_at <= x.published_at
         IN  <<s>> \o newest_first(batch \ {s})

\* sorted(stories, key=published_at): a stable insertion of each story
RECURSIVE sorted_by_published_at(_)
sorted_by_published_at(stories) ==
    IF stories = <<>> THEN <<>>
    ELSE LET x    == Head(stories)
             rest == sorted_by_published_at(Tail(stories))
             before == SelectSeq(rest,
                           LAMBDA y : y.published_at < x.published_at)
             after  == SelectSeq(rest,
                           LAMBDA y : y.published_at >= x.published_at)
         IN  before \o <<x>> \o after

\* a client that returns the stories in the order of the pages
get_news_unsorted(stories) ==
    stories

\* CryptoPanicClient.get_news: the stories of the pages, sorted
get_news(stories) ==
    sorted_by_published_at(stories)

\* a source that produces every fetched story
newer_than_unfiltered(stories, last) ==
    stories

\* [s for s in stories if s.published_at > last], when last is not None
newer_than(stories, last) ==
    IF last # None
    THEN SelectSeq(stories, LAMBDA s : s.published_at > last)
    ELSE stories

\* self.serialize(key="news", value=story.unpack())
serialize(story) == [key |-> "news", value |-> story]

\* One pass of the loop of run up to the state write: get_news, the filter,
\* produce for each story, and the new value of last.
poll(batch) ==
    /\ news_pc = "polling"
    /\ news_polls < MaxPolls
    /\ LET fetched == get_news(newest_first(batch))
           stories == newer_than(fetched, news_last)
       IN  /\ news_fetched' = fetched
           /\ news_topic' = news_topic \o
                 [i \in 1..Len(stories) |-> serialize(stories[i])]
           /\ news_last' = IF stories # <<>>
                           THEN stories[Len(stories)].published_at
                           ELSE news_last
    /\ news_polls' = news_polls + 1
    /\ news_pc' = "produced"
    /\ UNCHANGED <<news_state, news_flushed>>
    /\ UNCHANGED <<candle_vars, ta_vars, calc_vars, rest_vars, aux_vars>>

\* self.state.set("last", last); self.flush(): the produced messages are
\* delivered and the state is committed, then the loop sleeps and polls again
checkpoint ==
    /\ news_pc = "produced"
    /\ news_state' = news_last
    /\ news_flushed' = Len(news_topic)
    /\ news_pc' = "polling"
    /\ UNCHANGED <<news_last, news_topic, news_fetched, news_polls>>
    /\ UNCHANGED <<candle_vars, ta_vars, calc_vars, rest_vars, aux_vars>>

\* The process ends at any point of the loop and the source is started again.
\* Of the messages produced since the last flush the producer has delivered
\* some first part; run reads last from the committed state.
restart(delivered) ==
    /\ delivered \in news_flushed..Len(news_topic)
    /\ news_topic' = SubSeq(news_topic, 1, delivered)
    /\ news_flushed' = delivered
    /\ news_last' = news_state
    /\ news_pc' = "polling"
    /\ UNCHANGED <<news_state, news_fetched, news_polls>>
    /\ UNCHANGED <<candle_vars, ta_vars, calc_vars, rest_vars, aux_vars>>

\* ----------------------------- trades/exchanges/kraken.py historical REST client
\* Times are in the unit of the cursor (ns); a trade is a pair and its time.
\* Kraken answers a request with the oldest trades after since, a page of at
\* most PageSize, and with last, the time of the newest trade of the page
\* (since itself when the page is empty).
MaxTape == 3
PageSize == 2

\* data["result"][kraken_symbol] of the answer to a request
page_trades(tape, since) ==
    LET newer == SelectSeq(tape, LAMBDA t : t > since)
    IN  SubSeq(newer, 1, Min(PageSize, Len(newer)))

\* data["result"]["last"]
page_last(tape, since) ==
    LET trades == page_trades(tape, since)
    IN  IF trades = <<>> THEN since ELSE trades[Len(trades)]

\* KrakenTrade.from_rest(kraken_symbol, trade).into() for each trade
from_rest(kraken_symbol, trades_data) ==
    [i \in 1..Len(trades_data) |->
        [symbol |-> kraken_symbol, timestamp |-> trades_data[i]]]

\* a loop that asks for the trades after the tick that follows last
next_since_skips(since, last) ==
    last + 1

\* the since of the request after a page: last, _ = fetch_trades(symbol, last)
next_since(since, last) ==
    last

\* One turn of the loop of fetch_all_trades with a page of trades (which may
\* be empty): fetch_trades, extend, and the break on an empty page.
fetch_trades(sym) ==
    /\ rest_stream = "gathering"
    /\ rest_pc[sym] = "fetching"
    /\ LET since  == rest_last[sym]
           trades == page_trades(rest_tape[sym], since)
           last   == page_last(rest_tape[sym], since)
       IN  /\ rest_pages' = [rest_pages EXCEPT ![sym] =
                 Append(@, [since |-> since, error |-> FALSE,
                            trades |-> trades, last |-> last])]
           /\ rest_last' = [rest_last EXCEPT
                              ![sym] = next_since(rest_since_ns, last)]
           /\ rest_fetched' = [rest_fetched EXCEPT
                                 ![sym] = @ \o from_rest(sym, trades)]
           /\ rest_pc' = [rest_pc EXCEPT
                 ![sym] = IF trades = <<>> THEN "done" ELSE "fetching"]
    /\ UNCHANGED <<rest_tape, rest_now, rest_stop_ns, rest_since_ns,
                   rest_stream, rest_yielded>>
    /\ UNCHANGED <<candle_vars, ta_vars, calc_vars, news_vars, aux_vars>>

\* One turn of the loop with an answer whose error array is not empty, or
\* that has no result: fetch_trades raises ValueError, which ends
\* fetch_all_trades; gather keeps the exception as the result of the pair.
fetch_trades_raises(sym) ==
    /\ rest_stream = "gathering"
    /\ rest_pc[sym] = "fetching"
    /\ rest_pages' = [rest_pages EXCEPT ![sym] =
          Append(@, [since |-> rest_last[sym], error |-> TRUE,
                     trades |-> <<>>, last |-> rest_last[sym]])]
    /\ rest_pc' = [rest_pc EXCEPT ![sym] = "failed"]
    /\ UNCHANGED <<rest_tape, rest_now, rest_stop_ns, rest_since_ns,
                   rest_last, rest_fetched, rest_stream, rest_yielded>>
    /\ UNCHANGED <<candle_vars, ta_vars, calc_vars, news_vars, aux_vars>>

\* the exchange executes a trade of a pair while the client is fetching
exchange_trade(sym) ==
    /\ rest_stream = "gathering"
    /\ Len(rest_tape[sym]) < MaxTape
    /\ rest_tape' = [rest_tape EXCEPT ![sym] = Append(@, rest_now)]
    /\ rest_now' = rest_now + 1
    /\ UNCHANGED <<rest_stop_ns, rest_since_ns, rest_pc, rest_last,
                   rest_pages, rest_fetched, rest_stream, rest_yielded>>
    /\ UNCHANGED <<candle_vars, ta_vars, calc_vars, news_vars, aux_vars>>

\* sorted(trades, key=lambda t: t.timestamp): a stable insertion
RECURSIVE sorted_by_timestamp(_)
sorted_by_timestamp(trades) ==
    IF trades = <<>> THEN <<>>
    ELSE LET x    == Head(trades)
             rest == sorted_by_timestamp(Tail(trades))
             before == SelectSeq(rest, LAMBDA y : y.timestamp < x.timestamp)
             after  == SelectSeq(rest, LAMBDA y : y.timestamp >= x.timestamp)
         IN  before \o <<x>> \o after

\* the order of self.kraken_symbols
kraken_symbols == <<"XRPUSD", "BTCUSD">>

\* the trades of the results of gather that are no exception, in the order
\* of the pairs
RECURSIVE collect(_)
collect(i) ==
    IF i > Len(kraken_symbols) THEN <<>>
    ELSE (IF rest_pc[kraken_symbols[i]] = "done"
          THEN rest_fetched[kraken_symbols[i]] ELSE <<>>) \o collect(i + 1)

\* a stream_trades whose gather passes the first exception on: the generator
\* ends without a trade when the fetch of a pair has failed
stream_trades_raising ==
    /\ rest_stream = "gathering"
    /\ \A sym \in Symbols : rest_pc[sym] \in {"done", "failed"}
    /\ rest_yielded' = IF \E sym \in Symbols : rest_pc[sym] = "failed"
                       THEN <<>>
                       ELSE sorted_by_timestamp(collect(1))
    /\ rest_stream' = "done"
    /\ UNCHANGED <<rest_tape, rest_now, rest_stop_ns, rest_since_ns, rest_pc,
                   rest_last, rest_pages, rest_fetched>>
    /\ UNCHANGED <<candle_vars, ta_vars, calc_vars, news_vars, aux_vars>>

\* stream_trades once gather has returned: the errors are logged, the trades
\* of the other pairs sorted and yielded, and the generator ends.
stream_trades ==
    /\ rest_stream = "gathering"
    /\ \A sym \in Symbols : rest_pc[sym] \in {"done", "failed"}
    /\ rest_yielded' = sorted_by_timestamp(collect(1))
    /\ rest_stream' = "done"
    /\ UNCHANGED <<rest_tape, rest_now, rest_stop_ns, rest_since_ns, rest_pc,
                   rest_last, rest_pages, rest_fetched>>
    /\ UNCHANGED <<candle_vars, ta_vars, calc_vars, news_vars, aux_vars>>

\* ----------------------------- trades/exchanges/kraken.py live websocket client
\* The entries a "trade" message may carry in data: a trade of a subscribed
\* pair, an entry whose price is no number, and a trade of a pair that is no
\* member of Symbol.
WsEntries == { [symbol |-> "XRP/USD", price |-> "0.5"],
               [symbol |-> "XRP/USD", price |-> "n/a"],
               [symbol |-> "SOL/USD", price |-> "0.5"] }
MaxData == 2
MaxFrames == 2
\* the messages ws.recv() may return: text that is no JSON, a heartbeat, and
\* trade messages
WsFrames ==
    { [json |-> FALSE, channel |-> "", data |-> <<>>],
      [json |-> TRUE, channel |-> "heartbeat", data |-> <<>>] }
    \cup { [json |-> TRUE, channel |-> "trade", data |-> d] :
             d \in UNION { [1..n -> WsEntries] : n \in 0..MaxData } }

\* the values of Symbol
SymbolValues == {"XRPUSD", "XLMUSD", "BTCUSD", "ETHUSD",
                 "BTCEUR", "XRPEUR", "XLMEUR", "ETHEUR"}

\* symbol.replace("/", "") for the pairs of WsEntries
remove_slash(symbol) ==
    CASE symbol = "XRP/USD" -> "XRPUSD"
      [] symbol = "SOL/USD" -> "SOLUSD"

\* KrakenTrade.parse(trade).into(): model_validate raises ValidationError for
\* a price that is no float; model_dump calls the field serializer
\* Symbol(symbol.replace("/", "")), a ValueError for a value Symbol lacks;
\* Trade.parse then accepts the dump.
parse_into(entry) ==
    IF entry.price = "n/a"
    THEN [raised |-> "ValidationError", trade |-> entry]
    ELSE IF remove_slash(entry.symbol) \notin SymbolValues
    THEN [raised |-> "ValueError", trade |-> entry]
    ELSE [raised |-> "",
          trade  |-> [symbol |-> remove_slash(entry.symbol),
                      price |-> entry.price]]

\* for trade in trades: the trades the loop yields. ValidationError is
\* caught inside the loop, which goes on with the next entry; any other
\* exception leaves the loop for the handler of the message, which logs it
\* and continues with the next message.
RECURSIVE yield_trades(_)
yield_trades(data) ==
    IF data = <<>> THEN <<>>
    ELSE LET r == parse_into(Head(data))
         IN  CASE r.raised = "" -> <<r.trade>> \o yield_trades(Tail(data))
               [] r.raised = "ValidationError" -> yield_trades(Tail(data))
               [] OTHER -> <<>>

\* one turn of the loop of stream_trades for a message: json.loads raises
\* for a text that is no JSON and the handler continues; only the channel
\* "trade" yields
ws_recv(frame) ==
    /\ ws_status = "open"
    /\ Len(ws_frames) < MaxFrames
    /\ ws_frames' = Append(ws_frames, frame)
    /\ ws_yielded' = ws_yielded \o
          (IF frame.json /\ frame.channel = "trade"
           THEN yield_trades(frame.data) ELSE <<>>)
    /\ UNCHANGED <<ws_status, ws_close>>
    /\ UNCHANGED beside_ws

\* ws.recv() raises ConnectionClosedOK or ConnectionClosedError: both
\* handlers log and break, and the generator returns
ws_closed(how) ==
    /\ ws_status = "open"
    /\ ws_close' = how
    /\ ws_status' = "ended"
    /\ UNCHANGED <<ws_frames, ws_yielded>>
    /\ UNCHANGED beside_ws

\* ------------------- domain/sentiment_analysis.py and news_signals/signals
\* the values of Asset
AssetValues == {"BTC", "ETH", "XRP", "XLM", "BNB", "SOL", "DOGE", "ADA",
                "LTC", "BCH", "DOT", "XMR", "EOS", "XEM", "ZEC", "ETC"}
\* the values of SentimentSignal
SentimentSignalValues == {"BULLISH", "BEARISH"}

\* the entries an LLM may return: the two signals for an asset of the list,
\* an asset outside the list, and a label outside the signals
LLMEntries == { [asset |-> "BTC", sentiment |-> "BULLISH"],
                [asset |-> "BTC", sentiment |-> "BEARISH"],
                [asset |-> "USD", sentiment |-> "BULLISH"],
                [asset |-> "ETH", sentiment |-> "NEUTRAL"] }
MaxEntries == 2
MaxStories == 2
StoryTitles == {"SEC approves Bitcoin ETF"}
LLMModels == {"llama3.2:3b"}
\* what llm.structured_predict does: it returns an AssetSentimentAnalysisList
\* or raises when the completion is no JSON array of {asset, sentiment}
LLMOutputs ==
    { [raised |-> TRUE, root |-> <<>>] }
    \cup { [raised |-> FALSE, root |-> r] :
             r \in UNION { [1..n -> LLMEntries] : n \in 0..MaxEntries } }

\* validate_sentiments_and_remove_invalid: keeps the entries whose sentiment
\* is a value of SentimentSignal; the asset is not looked at
validate_sentiments_and_remove_invalid(asset_sentiments) ==
    SelectSeq(asset_sentiments,
              LAMBDA a : a.sentiment \in SentimentSignalValues)

\* NewsStorySentimentAnalysis(asset_sentiments=..., llm_model=..., story=...)
\* with timestamp from its default factory
NewsStorySentimentAnalysis(story, timestamp, llm_model, asset_sentiments) ==
    [story |-> story, timestamp |-> timestamp, llm_model |-> llm_model,
     asset_sentiments |->
        validate_sentiments_and_remove_invalid(asset_sentiments)]

\* an encoding that gives both signals the value 1
SentimentSignal_encoded_unsigned(sentiment) == 1

\* SentimentSignal(sentiment).encoded()
SentimentSignal_encoded(sentiment) ==
    CASE sentiment = "BULLISH" -> 1
      [] sentiment = "BEARISH" -> -1

\* {a.asset: SentimentSignal(a.sentiment).encoded() for a in ...}: a later
\* entry of an asset replaces an earlier one
RECURSIVE encoded_assets(_)
encoded_assets(asset_sentiments) ==
    IF asset_sentiments = <<>> THEN <<>>
    ELSE LET n == Len(asset_sentiments)
             a == asset_sentiments[n]
         IN  (a.asset :> SentimentSignal_encoded(a.sentiment))
                @@ encoded_assets(SubSeq(asset_sentiments, 1, n - 1))

\* NewsStorySentimentAnalysis.encoded
encoded(analysis) ==
    encoded_assets(analysis.asset_sentiments)
        @@ [story |-> analysis.story,
            llm_model |-> analysis.llm_model] @@
       ("timestamp" :> analysis.timestamp)

\* SentimentAnalyzer.analyze(story) followed by encoded() of its result:
\* an exception of structured_predict is not caught and leaves analyze
analyze(story, llm_model, output) ==
    /\ sa_status = "ready"
    /\ Len(sa_analyses) < MaxStories
    /\ IF output.raised
       THEN /\ sa_status' = "raised"
            /\ UNCHANGED <<sa_analyses, sa_encoded>>
       ELSE LET analysis == NewsStorySentimentAnalysis(
                                story, Len(sa_analyses) + 1, llm_model,
                                output.root)
            IN  /\ sa_analyses' = Append(sa_analyses,
                       [llm |-> output.root, analysis |-> analysis])
                /\ sa_encoded' = Append(sa_encoded, encoded(analysis))
                /\ UNCHANGED sa_status
    /\ UNCHANGED beside_sa

\* ------------------------------------ ingestion modes and auto_offset_reset
MaxRecords == 4
IngestionModes == {"LIVE", "HISTORICAL"}
IngestionFlags == {"trades", "news"}

\* TradesIngestionMode.to_auto_reset_offset_mode
TradesIngestionMode_to_auto_reset_offset_mode(mode) ==
    CASE mode = "LIVE" -> "earliest"
      [] mode = "HISTORICAL" -> "latest"

\* NewsIngestionMode.to_auto_reset_offset_mode
NewsIngestionMode_to_auto_reset_offset_mode(mode) ==
    CASE mode = "LIVE" -> "earliest"
      [] mode = "HISTORICAL" -> "latest"

to_auto_reset_offset_mode(flag, mode) ==
    CASE flag = "trades" -> TradesIngestionMode_to_auto_reset_offset_mode(mode)
      [] flag = "news" -> NewsIngestionMode_to_auto_reset_offset_mode(mode)

\* a producer appends a record to the input topic
cg_produce ==
    /\ cg_status \in {"created", "started"}
    /\ cg_log < MaxRecords
    /\ cg_log' = cg_log + 1
    /\ UNCHANGED <<cg_status, cg_flag, cg_mode, cg_policy, cg_start, cg_first,
                   cg_position>>
    /\ UNCHANGED beside_cg

\* startup: qs.Application(auto_offset_reset=mode.to_auto_reset_offset_mode())
\* and the first poll of its consumer, which has no committed offset:
\* earliest resets to offset 0, latest to the end of the topic
cg_startup(flag, mode) ==
    /\ cg_status = "created"
    /\ cg_status' = "started"
    /\ cg_flag' = flag
    /\ cg_mode' = mode
    /\ cg_policy' = to_auto_reset_offset_mode(flag, mode)
    /\ cg_start' = cg_log
    /\ cg_first' = IF cg_policy' = "earliest" THEN 0 ELSE cg_log
    /\ cg_position' = cg_first'
    /\ UNCHANGED cg_log
    /\ UNCHANGED beside_cg

\* the consumer reads the next record of the topic
cg_consume ==
    /\ cg_status = "started"
    /\ cg_position < cg_log
    /\ cg_position' = cg_position + 1
    /\ UNCHANGED <<cg_status, cg_flag, cg_mode, cg_policy, cg_log, cg_start,
                   cg_first>>
    /\ UNCHANGED beside_cg

\* ------------------------------------- trades/stream.py: the topics written
MaxProduced == 4
\* the values of backfill_job_id of two runs of the service
JobIds == {"1700000000", "1700003600"}
\* Settings of a run: topic and backfill_job_id; a topic name is the sequence
\* of the parts that its f-string joins with "_"
TradesSettings == [topic : {"trades"}, backfill_job_id : JobIds]

\* Settings.topic_historical
topic_historical(s) == <<s.topic, "historical", s.backfill_job_id>>

\* consume_historical_trades: historical_topic_name
historical_topic_name(s) == <<s.topic, "historical">>

\* consume_live_trades: settings.topic
live_topic_name(s) == <<s.topic>>

\* consume_live_trades produces a trade of the websocket client
consume_live_trades(s) ==
    /\ tp_status = "running"
    /\ Len(tp_produced) < MaxProduced
    /\ tp_produced' = Append(tp_produced,
          [topic |-> live_topic_name(s), ingestion |-> "LIVE",
           job |-> s.backfill_job_id])
    /\ UNCHANGED tp_status
    /\ UNCHANGED beside_tp

\* consume_historical_trades produces a trade of the REST client
consume_historical_trades(s) ==
    /\ tp_status = "running"
    /\ Len(tp_produced) < MaxProduced
    /\ tp_produced' = Append(tp_produced,
          [topic |-> historical_topic_name(s), ingestion |-> "HISTORICAL",
           job |-> s.backfill_job_id])
    /\ UNCHANGED tp_status
    /\ UNCHANGED beside_tp

\* ------------------------------------ candles/main.py, ta/main.py: shutdown
\* stream_proc.join(timeout=10)
JoinTimeout == 10
Services == {"candles", "ta"}

\* stream_proc.is_alive()
is_alive(worker) == worker \in {"running", "stopping"}

\* a shutdown that never kills
must_kill_never(worker) == FALSE

\* if stream_proc.is_alive(): stream_proc.kill()
must_kill(worker) == is_alive(worker)

\* the stream of the worker ends on its own before shutdown: run_stream
\* logs the exception of stream_app.run() and returns
worker_exits_early ==
    /\ sd_pc = "serving"
    /\ sd_worker = "running"
    /\ sd_worker' = "exited"
    /\ UNCHANGED <<sd_service, sd_pc, sd_stop_raised, sd_clock, sd_calls>>
    /\ UNCHANGED beside_sd

\* if stream_app := app.state.stream_app: try stream_app.stop(), and an
\* exception of it is logged
shutdown_stop(raised) ==
    /\ sd_pc = "serving"
    /\ sd_pc' = "stop requested"
    /\ sd_stop_raised' = raised
    /\ sd_calls' = Append(sd_calls, "stop")
    /\ UNCHANGED <<sd_service, sd_worker, sd_clock>>
    /\ UNCHANGED beside_sd

\* stream_proc.terminate(): SIGTERM, which the stream application of the
\* worker handles by stopping; then join(timeout=10) starts to wait
shutdown_terminate ==
    /\ sd_pc = "stop requested"
    /\ sd_pc' = "joining"
    /\ sd_worker' = IF sd_worker = "running" THEN "stopping" ELSE sd_worker
    /\ sd_clock' = 0
    /\ sd_calls' = Append(sd_calls, "terminate")
    /\ UNCHANGED <<sd_service, sd_stop_raised>>
    /\ UNCHANGED beside_sd

\* the worker finishes stopping and its process exits
worker_exits ==
    /\ sd_worker = "stopping"
    /\ sd_worker' = "exited"
    /\ UNCHANGED <<sd_service, sd_pc, sd_stop_raised, sd_clock, sd_calls>>
    /\ UNCHANGED beside_sd

\* join waits one more second for a worker that is still alive
join_waits ==
    /\ sd_pc = "joining"
    /\ is_alive(sd_worker)
    /\ sd_clock < JoinTimeout
    /\ sd_clock' = sd_clock + 1
    /\ UNCHANGED <<sd_service, sd_pc, sd_stop_raised, sd_worker, sd_calls>>
    /\ UNCHANGED beside_sd

\* join returns, the worker having exited or the timeout having passed; then
\* if stream_proc.is_alive(): stream_proc.kill(), and shutdown returns
join_returns ==
    /\ sd_pc = "joining"
    /\ ~is_alive(sd_worker) \/ sd_clock = JoinTimeout
    /\ sd_pc' = "returned"
    /\ IF must_kill(sd_worker)
       THEN /\ sd_worker' = "killed"
            /\ sd_calls' = sd_calls \o <<"join", "kill">>
       ELSE /\ sd_calls' = Append(sd_calls, "join")
            /\ UNCHANGED sd_worker
    /\ UNCHANGED <<sd_service, sd_stop_raised, sd_clock>>
    /\ UNCHANGED beside_sd

\* ------------------------- news/outlets/cryptopanic.py: the pages of a poll
MaxPages == 3
\* the posts of a page, newest first
PagePosts == { <<[title |-> "D", published_at |-> 4],
                 [title |-> "C", published_at |-> 3]>>,
               <<[title |-> "B", published_at |-> 2]>> }
\* what a request may give: a page of posts, an exception of requests.get or
\* of response.json(), or a body without results
Outcomes == {"ok", "transport error", "no results"}

\* get_news_batch(url): the batch and the next URL, None after the last page
get_news_batch(pages, url, outcome) ==
    IF outcome = "ok"
    THEN [batch |-> pages[url],
          next_url |-> IF url < Len(pages) THEN url + 1 ELSE None,
          slept |-> 0]
    ELSE [batch |-> <<>>, next_url |-> url,
          slept |-> IF outcome = "transport error" THEN 1 ELSE 0]

\* get_news: if not batch or not next_url: break
more_pages(batch, next_url) == batch # <<>> /\ next_url # None

\* one turn of the loop of get_news: a request, stories += batch, and either
\* the next URL or the return of the sorted stories
get_news_turn(outcome) ==
    /\ np_pc = "fetching"
    /\ LET r == get_news_batch(np_pages, np_url, outcome)
           all == np_stories \o r.batch
       IN  /\ np_requests' = Append(np_requests,
                                    [url |-> np_url, outcome |-> outcome])
           /\ np_slept' = np_slept + r.slept
           /\ IF more_pages(r.batch, r.next_url)
              THEN /\ np_url' = r.next_url
                   /\ np_stories' = all
                   /\ UNCHANGED np_pc
              ELSE /\ np_pc' = "returned"
                   /\ np_stories' = get_news(all)
                   /\ UNCHANGED np_url
    /\ UNCHANGED np_pages
    /\ UNCHANGED beside_np

\* ------------------------------- features/sinks, price_predictions/sinks
\* number of messages of the input partition
MaxMessages == 3
\* retry_after of the SinkBackpressureError
RetryAfter == 30
Sinks == {"hopsworks", "elasticsearch"}
SinkPartitions == [topic : {"features"}, partition : {0, 1}]
NoError == [error |-> "", retry_after |-> 0, topic |-> "", partition |-> 0]

\* a write that swallows the timeout
write_swallowing_timeout(topic, partition, outcome) ==
    NoError

\* write(batch): what it raises. self.fg.insert(data) or streaming_bulk
\* raising TimeoutError gives SinkBackpressureError(retry_after=30.0,
\* topic=batch.topic, partition=batch.partition)
write(topic, partition, outcome) ==
    IF outcome = "TimeoutError"
    THEN [error |-> "SinkBackpressureError", retry_after |-> RetryAfter,
          topic |-> topic, partition |-> partition]
    ELSE NoError

\* the stream application reads a message of the partition and adds it to
\* the batch of the sink
sink_add ==
    /\ sk_sink \in Sinks
    /\ ~sk_paused
    /\ sk_position < MaxMessages
    /\ sk_batch' = Append(sk_batch, sk_position)
    /\ sk_position' = sk_position + 1
    /\ UNCHANGED <<sk_sink, sk_partition, sk_committed, sk_written, sk_raised,
                   sk_failed, sk_paused>>
    /\ UNCHANGED beside_sk

\* a checkpoint flushes the batch with write(batch). Without an exception the
\* store holds the records and the offsets are committed. On
\* SinkBackpressureError the stream application drops the batch, pauses the
\* partition for retry_after and seeks back to the committed offset.
sink_flush(outcome) ==
    /\ sk_sink \in Sinks
    /\ ~sk_paused
    /\ sk_batch # <<>>
    /\ LET raised == write(sk_partition.topic, sk_partition.partition, outcome)
           offsets == { sk_batch[i] : i \in 1..Len(sk_batch) }
       IN  /\ sk_raised' = raised
           /\ sk_batch' = <<>>
           /\ IF raised.error = "SinkBackpressureError"
              THEN /\ sk_paused' = TRUE
                   /\ sk_position' = sk_committed
                   /\ sk_failed' = sk_failed \cup offsets
                   /\ UNCHANGED <<sk_written, sk_committed>>
              ELSE /\ sk_written' = IF outcome = "TimeoutError"
                                    THEN sk_written
                                    ELSE sk_written \cup offsets
                   /\ sk_committed' = sk_position
                   /\ UNCHANGED <<sk_position, sk_failed, sk_paused>>
    /\ UNCHANGED <<sk_sink, sk_partition>>
    /\ UNCHANGED beside_sk

\* retry_after seconds have passed and the partition is resumed
sink_resume ==
    /\ sk_paused
    /\ sk_paused' = FALSE
    /\ UNCHANGED <<sk_sink, sk_partition, sk_committed, sk_position, sk_batch,
                   sk_written, sk_raised, sk_failed>>
    /\ UNCHANGED beside_sk

\* ------------------------------------------- Candle.update and close_window
\* a candle of two trades or of one, and the trades applied to it: prices
\* below and above its range, times before and after its timestamp, a
\* small and a large volume
OpCandles ==
    { init("1m", Trade("XRPUSD", lot, 1500, "KRAKEN")) :
        lot \in {<<2, 1>>, <<2, 8>>} }
OpTrades ==
    { Trade("XRPUSD", lot, ts, "KRAKEN") :
        lot \in {<<1, 1>>, <<3, 8>>}, ts \in {1000, 2000} }
OpWindows == { <<0, 60000>>, <<60000, 120000>> }

\* candle.update(t1).update(t2) and candle.update(t2).update(t1)
Candle_update_both_orders ==
    /\ cu_pc = "ready"
    /\ cu_pc' = "updated"
    /\ cu_results' =
          <<update(update(cu_candle, cu_trades[1]), cu_trades[2]),
            update(update(cu_candle, cu_trades[2]), cu_trades[1])>>
    /\ UNCHANGED <<cu_candle, cu_trades, cu_window, cu_closed>>
    /\ UNCHANGED beside_cu

\* candle.close_window(start, end), and the same call on its result
Candle_close_window_twice(start, end) ==
    /\ cu_pc = "ready"
    /\ cu_pc' = "closed"
    /\ cu_window' = <<start, end>>
    /\ cu_closed' =
          <<close_window(cu_candle, start, end),
            close_window(close_window(cu_candle, start, end), start, end)>>
    /\ UNCHANGED <<cu_candle, cu_trades, cu_results>>
    /\ UNCHANGED beside_cu

\* ---------------------------------- domain/core.py: Schema.unpack and parse
\* the indicator fields kept of a TechnicalAnalysis (float | None)
IndicatorFields == {"rsi_9", "macd", "sma_7"}
\* the fields int | None of CandleProps
OptionalIntFields == {"start", "end"}
\* the JSON modules a stream application may serialize with: json writes
\* the token NaN for a float nan and reads it back, orjson writes null
JsonLibraries == {"json", "orjson"}

\* Symbol.to_asset for the symbols of six letters
to_asset(symbol) ==
    CASE symbol = "XRPUSD" -> "XRP"
      [] symbol = "BTCUSD" -> "BTC"

\* the objects sent: trades, candles with and without window, technical
\* analyses whose indicators are a float or nan, news stories
RtCandles ==
    OpCandles \cup { close_window(c, 0, 60000) : c \in OpCandles }
RtObjects(kind) ==
    CASE kind = "Trade" -> Trades
      [] kind = "Candle" -> RtCandles
      [] kind = "TechnicalAnalysis" ->
            { ind @@ c : c \in RtCandles,
                         ind \in [IndicatorFields -> {"float", NaN}] }
      [] kind = "NewsStory" ->
            { [outlet |-> "CRYPTOPANIC", title |-> st.title,
               source |-> "cointelegraph.com",
               published_at |-> st.published_at,
               url |-> "https://cryptopanic.com/news", timestamp |-> 1000] :
                st \in Stories }
SchemaKinds == {"Trade", "Candle", "TechnicalAnalysis", "NewsStory"}

\* Schema.unpack: model_dump, the fields and the computed fields; members
\* of the str enums are their values
Schema_unpack(kind, obj) ==
    IF kind = "TechnicalAnalysis"
    THEN obj @@ ("asset" :> to_asset(obj.symbol))
    ELSE obj

\* the JSON value written for the field f with value v
json_dumps(lib, f, v) ==
    IF f \in IndicatorFields
    THEN CASE v = NaN /\ lib = "json" -> [token |-> "NaN", v |-> v]
           [] v = NaN /\ lib = "orjson" -> [token |-> "null", v |-> NoValue]
           [] v = NoValue -> [token |-> "null", v |-> v]
           [] OTHER -> [token |-> "number", v |-> v]
    ELSE IF f \in OptionalIntFields
    THEN IF v = None THEN [token |-> "null", v |-> v]
                     ELSE [token |-> "number", v |-> v]
    ELSE [token |-> "value", v |-> v]

\* the value read from a JSON value: numbers and strings are read back as
\* written, null as None, the token NaN as a float nan
json_loads(w) == w.v

\* Schema.parse: model_validate keeps the fields of the class and ignores
\* other keys
Schema_parse(kind, data) ==
    IF kind = "TechnicalAnalysis"
    THEN [f \in DOMAIN data \ {"asset"} |-> data[f]]
    ELSE data

\* a == b of two objects of a class: every field equal, where a float nan
\* equals nothing
Schema_eq(a, b) ==
    /\ DOMAIN a = DOMAIN b
    /\ \A f \in DOMAIN a :
          /\ a[f] = b[f]
          /\ f \in IndicatorFields => a[f] # NaN

\* an object is unpacked, produced as JSON, consumed and parsed
round_trip(lib) ==
    /\ rt_pc = "ready"
    /\ rt_pc' = "parsed"
    /\ LET data == Schema_unpack(rt_kind, rt_original)
           wire == [f \in DOMAIN data |-> json_dumps(lib, f, data[f])]
       IN  /\ rt_wire' = wire
           /\ rt_parsed' = Schema_parse(rt_kind,
                              [f \in DOMAIN wire |-> json_loads(wire[f])])
    /\ UNCHANGED <<rt_kind, rt_original>>
    /\ UNCHANGED beside_rt

\* ------------------------- news/outlets/cryptopanic.py: the historical source
MaxRows == 2
MaxPasses == 2
\* a row of the file; a row with an empty cell has url NaN after read_csv
CsvRows ==
    { [title |-> t, newsDatetime |-> d, url |-> u] :
        t \in {"A", "B"}, d \in {"01/01/2024 00:00"},
        u \in {"https://cryptopanic.com/news", NaN} }
CsvFiles == UNION { [1..n -> CsvRows] : n \in 0..MaxRows }

\* DataFrame.dropna: the rows without an empty cell, in file order
RECURSIVE dropna(_)
dropna(df) ==
    IF df = <<>> THEN <<>>
    ELSE IF Head(df).url = NaN THEN dropna(Tail(df))
    ELSE <<Head(df)>> \o dropna(Tail(df))

\* strptime with "%m/%d/%Y %H:%M", made UTC, as isoformat
row_published_at(newsDatetime) ==
    CASE newsDatetime = "01/01/2024 00:00" -> "2024-01-01T00:00:00+00:00"

\* _row_to_story and the message serialized with key "news"
row_to_story(row) ==
    [outlet |-> "CRYPTOPANIC", title |-> row.title,
     published_at |-> row_published_at(row.newsDatetime), url |-> row.url]
row_message(row) == [key |-> "news", value |-> row_to_story(row)]

\* while self.running: the file is read and its rows without empty cells
\* are the rows of this pass
historical_read ==
    /\ hn_pc = "head"
    /\ hn_running
    /\ hn_passes < MaxPasses
    /\ hn_rows' = dropna(hn_file)
    /\ hn_passes' = hn_passes + 1
    /\ hn_pc' = "rows"
    /\ UNCHANGED <<hn_file, hn_running, hn_produced>>
    /\ UNCHANGED beside_hn

\* for row in rows: one story is produced; after the last row the loop is
\* back at the head of while
historical_produce ==
    /\ hn_pc = "rows"
    /\ IF hn_rows = <<>>
       THEN /\ hn_pc' = "head"
            /\ UNCHANGED <<hn_rows, hn_produced>>
       ELSE /\ hn_produced' = Append(hn_produced, row_message(Head(hn_rows)))
            /\ hn_rows' = Tail(hn_rows)
            /\ hn_pc' = IF Tail(hn_rows) = <<>> THEN "head" ELSE "rows"
    /\ UNCHANGED <<hn_file, hn_running, hn_passes>>
    /\ UNCHANGED beside_hn

\* Source.stop, called by the application that runs the source
historical_stop ==
    /\ hn_pc \in {"head", "rows"}
    /\ hn_running
    /\ hn_running' = FALSE
    /\ UNCHANGED <<hn_pc, hn_file, hn_rows, hn_passes, hn_produced>>
    /\ UNCHANGED beside_hn

\* while self.running is false: run returns
historical_return ==
    /\ hn_pc = "head"
    /\ ~hn_running
    /\ hn_pc' = "finished"
    /\ UNCHANGED <<hn_file, hn_running, hn_rows, hn_passes, hn_produced>>
    /\ UNCHANGED beside_hn

\* ------------------------------------------------------------ specification
\* a part of the program that takes no step in a specification
candles_idle ==
    /\ settings = [timeframe |-> "1m", emission_mode |-> "LIVE"]
    /\ windows = [k \in Symbols |-> {}]
    /\ latest_timestamp = [k \in Symbols |-> 0]
    /\ trades_topic = <<>>
    /\ candles_topic = <<>>
    /\ emitted_by = <<>>
calc_idle == calc_args = <<>> /\ calc_result = <<>>
news_idle ==
    /\ news_pc = "stopped"
    /\ news_last = None
    /\ news_state = None
    /\ news_topic = <<>>
    /\ news_flushed = 0
    /\ news_fetched = <<>>
    /\ news_polls = 0
rest_idle ==
    /\ rest_tape = [sym \in Symbols |-> <<>>]
    /\ rest_now = 0
    /\ rest_stop_ns = 0
    /\ rest_since_ns = 0
    /\ rest_pc = [sym \in Symbols |-> "idle"]
    /\ rest_last = [sym \in Symbols |-> 0]
    /\ rest_pages = [sym \in Symbols |-> <<>>]
    /\ rest_fetched = [sym \in Symbols |-> <<>>]
    /\ rest_stream = "idle"
    /\ rest_yielded = <<>>
ws_idle ==
    /\ ws_status = "idle"
    /\ ws_close = "none"
    /\ ws_frames = <<>>
    /\ ws_yielded = <<>>
sa_idle ==
    /\ sa_status = "idle"
    /\ sa_analyses = <<>>
    /\ sa_encoded = <<>>
cg_idle ==
    /\ cg_status = "idle"
    /\ cg_flag = "none"
    /\ cg_mode = "none"
    /\ cg_policy = "none"
    /\ cg_log = 0
    /\ cg_start = None
    /\ cg_first = None
    /\ cg_position = None
tp_idle ==
    /\ tp_status = "idle"
    /\ tp_produced = <<>>
sd_idle ==
    /\ sd_service = "none"
    /\ sd_pc = "idle"
    /\ sd_stop_raised = FALSE
    /\ sd_worker = "none"
    /\ sd_clock = 0
    /\ sd_calls = <<>>
np_idle ==
    /\ np_pages = <<>>
    /\ np_pc = "idle"
    /\ np_url = 0
    /\ np_requests = <<>>
    /\ np_slept = 0
    /\ np_stories = <<>>
sk_idle ==
    /\ sk_sink = "none"
    /\ sk_partition = [topic |-> "", partition |-> 0]
    /\ sk_committed = 0
    /\ sk_position = 0
    /\ sk_batch = <<>>
    /\ sk_written = {}
    /\ sk_raised = [error |-> "", retry_after |-> 0, topic |-> "", partition |-> 0]
    /\ sk_failed = {}
    /\ sk_paused = FALSE
cu_idle ==
    /\ cu_pc = "idle"
    /\ cu_candle = NoCandle
    /\ cu_trades = <<>>
    /\ cu_window = <<>>
    /\ cu_results = <<>>
    /\ cu_closed = <<>>
rt_idle ==
    /\ rt_pc = "idle"
    /\ rt_kind = "none"
    /\ rt_original = NoCandle
    /\ rt_wire = NoCandle
    /\ rt_parsed = NoCandle
hn_idle ==
    /\ hn_pc = "idle"
    /\ hn_file = <<>>
    /\ hn_running = FALSE
    /\ hn_rows = <<>>
    /\ hn_passes = 0
    /\ hn_produced = <<>>
aux_idle ==
    /\ ws_idle
    /\ sa_idle
    /\ cg_idle
    /\ tp_idle
    /\ sd_idle
    /\ np_idle
    /\ sk_idle
    /\ cu_idle
    /\ rt_idle
    /\ hn_idle
idle_beside_ws ==
    /\ sa_idle
    /\ cg_idle
    /\ tp_idle
    /\ sd_idle
    /\ np_idle
    /\ sk_idle
    /\ cu_idle
    /\ rt_idle
    /\ hn_idle
idle_beside_sa ==
    /\ ws_idle
    /\ cg_idle
    /\ tp_idle
    /\ sd_idle
    /\ np_idle
    /\ sk_idle
    /\ cu_idle
    /\ rt_idle
    /\ hn_idle
idle_beside_cg ==
    /\ ws_idle
    /\ sa_idle
    /\ tp_idle
    /\ sd_idle
    /\ np_idle
    /\ sk_idle
    /\ cu_idle
    /\ rt_idle
    /\ hn_idle
idle_beside_tp ==
    /\ ws_idle
    /\ sa_idle
    /\ cg_idle
    /\ sd_idle
    /\ np_idle
    /\ sk_idle
    /\ cu_idle
    /\ rt_idle
    /\ hn_idle
idle_beside_sd ==
    /\ ws_idle
    /\ sa_idle
    /\ cg_idle
    /\ tp_idle
    /\ np_idle
    /\ sk_idle
    /\ cu_idle
    /\ rt_idle
    /\ hn_idle
idle_beside_np ==
    /\ ws_idle
    /\ sa_idle
    /\ cg_idle
    /\ tp_idle
    /\ sd_idle
    /\ sk_idle
    /\ cu_idle
    /\ rt_idle
    /\ hn_idle
idle_beside_sk ==
    /\ ws_idle
    /\ sa_idle
    /\ cg_idle
    /\ tp_idle
    /\ sd_idle
    /\ np_idle
    /\ cu_idle
    /\ rt_idle
    /\ hn_idle
idle_beside_cu ==
    /\ ws_idle
    /\ sa_idle
    /\ cg_idle
    /\ tp_idle
    /\ sd_idle
    /\ np_idle
    /\ sk_idle
    /\ rt_idle
    /\ hn_idle
idle_beside_rt ==
    /\ ws_idle
    /\ sa_idle
    /\ cg_idle
    /\ tp_idle
    /\ sd_idle
    /\ np_idle
    /\ sk_idle
    /\ cu_idle
    /\ hn_idle
idle_beside_hn ==
    /\ ws_idle
    /\ sa_idle
    /\ cg_idle
    /\ tp_idle
    /\ sd_idle
    /\ np_idle
    /\ sk_idle
    /\ cu_idle
    /\ rt_idle

InitTA ==
    /\ ta_state = [k \in Symbols |-> <<>>]
    /\ ta_topic = <<>>
    /\ ta_status = "running"
    /\ ta_consumed = 0
    /\ ta_popped = 0
    /\ ta_branch = [path |-> "none", key |-> "", last_candle |-> NoCandle]

Init ==
    /\ InitTA
    /\ calc_idle
    /\ news_idle
    /\ rest_idle
    /\ aux_idle
    /\ settings \in [timeframe : Timeframes, emission_mode : EmissionModes]
    /\ windows = [k \in Symbols |-> {}]
    /\ latest_timestamp = [k \in Symbols |-> 0]
    /\ trades_topic = <<>>
    /\ candles_topic = <<>>
    /\ emitted_by = <<>>

Next == \E trade \in Trades : generate_candles_from_trades(trade)

\* the candle operator on its own
Spec == Init /\ [][Next]_vars

\* the candle operator feeding the TA operator through the candles topic
NextTA ==
    \/ \E trade \in Trades : generate_candles_from_trades(trade)
    \/ do_ta_from_candles

SpecTA == Init /\ [][NextTA]_vars

\* the buffer steps of the TA operator on any sequence of candles
InitTABuffer ==
    /\ InitTA
    /\ calc_idle
    /\ news_idle
    /\ rest_idle
    /\ aux_idle
    /\ settings = [timeframe |-> "1m", emission_mode |-> "LIVE"]
    /\ windows = [k \in Symbols |-> {}]
    /\ latest_timestamp = [k \in Symbols |-> 0]
    /\ trades_topic = <<>>
    /\ candles_topic = <<>>
    /\ emitted_by = <<>>

NextTABuffer ==
    \E key \in Symbols, latest \in TACandles : buffer_latest(key, latest)

SpecTABuffer == InitTABuffer /\ [][NextTABuffer]_vars

\* TechnicalAnalysis.calc applied to any list of candles
InitCalc ==
    /\ InitTA
    /\ settings = [timeframe |-> "1m", emission_mode |-> "LIVE"]
    /\ windows = [k \in Symbols |-> {}]
    /\ latest_timestamp = [k \in Symbols |-> 0]
    /\ trades_topic = <<>>
    /\ candles_topic = <<>>
    /\ emitted_by = <<>>
    /\ calc_args \in CalcArgs
    /\ calc_result = <<>>
    /\ news_idle
    /\ rest_idle
    /\ aux_idle

NextCalc == TechnicalAnalysis_calc

SpecCalc == InitCalc /\ [][NextCalc]_vars

\* the live news source, started with an empty state store
InitNews ==
    /\ InitTA
    /\ calc_idle
    /\ settings = [timeframe |-> "1m", emission_mode |-> "LIVE"]
    /\ windows = [k \in Symbols |-> {}]
    /\ latest_timestamp = [k \in Symbols |-> 0]
    /\ trades_topic = <<>>
    /\ candles_topic = <<>>
    /\ emitted_by = <<>>
    /\ news_pc = "polling"
    /\ news_last = None
    /\ news_state = None
    /\ news_topic = <<>>
    /\ news_flushed = 0
    /\ news_fetched = <<>>
    /\ news_polls = 0
    /\ rest_idle
    /\ aux_idle

NextNews ==
    \/ \E batch \in SUBSET Stories : poll(batch)
    \/ checkpoint
    \/ \E delivered \in 0..(MaxPolls * Cardinality(Stories)) :
          restart(delivered)

SpecNews == InitNews /\ [][NextNews]_vars

\* the historical REST client after a call of stream_trades(since): the
\* exchange holds some trades older than the call, since_ns is before them
\* or after the first
InitRest ==
    /\ InitTA
    /\ calc_idle
    /\ news_idle
    /\ settings = [timeframe |-> "1m", emission_mode |-> "LIVE"]
    /\ windows = [k \in Symbols |-> {}]
    /\ latest_timestamp = [k \in Symbols |-> 0]
    /\ trades_topic = <<>>
    /\ candles_topic = <<>>
    /\ emitted_by = <<>>
    /\ rest_tape \in [Symbols -> {<<>>, <<1>>, <<1, 2>>}]
    /\ rest_now = 3
    /\ rest_stop_ns = rest_now
    /\ rest_since_ns \in {0, 1}
    /\ rest_pc = [sym \in Symbols |-> "fetching"]
    /\ rest_last = [sym \in Symbols |-> rest_since_ns]
    /\ rest_pages = [sym \in Symbols |-> <<>>]
    /\ rest_fetched = [sym \in Symbols |-> <<>>]
    /\ rest_stream = "gathering"
    /\ rest_yielded = <<>>
    /\ aux_idle

NextRest ==
    \/ \E sym \in Symbols : fetch_trades(sym)
    \/ \E sym \in Symbols : fetch_trades_raises(sym)
    \/ \E sym \in Symbols : exchange_trade(sym)
    \/ stream_trades

SpecRest == InitRest /\ [][NextRest]_vars

\* every operator and source above at rest
core_idle == candles_idle /\ InitTA /\ calc_idle /\ news_idle /\ rest_idle

\* the websocket client after connect(), consumed by consume_live_trades
InitWs ==
    /\ core_idle
    /\ idle_beside_ws
    /\ ws_status = "open"
    /\ ws_close = "none"
    /\ ws_frames = <<>>
    /\ ws_yielded = <<>>

NextWs ==
    \/ \E frame \in WsFrames : ws_recv(frame)
    \/ \E how \in {"ok", "error"} : ws_closed(how)

SpecWs == InitWs /\ [][NextWs]_vars

\* the sentiment analyzer of get_sentiment_analyzer()
InitSentiment ==
    /\ core_idle
    /\ idle_beside_sa
    /\ sa_status = "ready"
    /\ sa_analyses = <<>>
    /\ sa_encoded = <<>>

NextSentiment ==
    \E story \in StoryTitles, llm_model \in LLMModels, output \in LLMOutputs :
        analyze(story, llm_model, output)

SpecSentiment == InitSentiment /\ [][NextSentiment]_vars

\* a service that derives auto_offset_reset from its ingestion mode, before
\* its startup, with a topic other services produce to
InitOffsets ==
    /\ core_idle
    /\ idle_beside_cg
    /\ cg_status = "created"
    /\ cg_flag = "none"
    /\ cg_mode = "none"
    /\ cg_policy = "none"
    /\ cg_log = 0
    /\ cg_start = None
    /\ cg_first = None
    /\ cg_position = None

NextOffsets ==
    \/ cg_produce
    \/ \E flag \in IngestionFlags, mode \in IngestionModes :
          cg_startup(flag, mode)
    \/ cg_consume

SpecOffsets == InitOffsets /\ [][NextOffsets]_vars

\* runs of the trades service, each with its own backfill_job_id, on one broker
InitTopics ==
    /\ core_idle
    /\ idle_beside_tp
    /\ tp_status = "running"
    /\ tp_produced = <<>>

NextTopics ==
    \/ \E s \in TradesSettings : consume_live_trades(s)
    \/ \E s \in TradesSettings : consume_historical_trades(s)

SpecTopics == InitTopics /\ [][NextTopics]_vars

\* a service after startup: the stream application created and the worker
\* process started
InitShutdown ==
    /\ core_idle
    /\ idle_beside_sd
    /\ sd_service \in Services
    /\ sd_pc = "serving"
    /\ sd_stop_raised = FALSE
    /\ sd_worker = "running"
    /\ sd_clock = 0
    /\ sd_calls = <<>>

NextShutdown ==
    \/ worker_exits_early
    \/ \E raised \in BOOLEAN : shutdown_stop(raised)
    \/ shutdown_terminate
    \/ worker_exits
    \/ join_waits
    \/ join_returns

SpecShutdown == InitShutdown /\ [][NextShutdown]_vars

\* a call of CryptoPanicClient.get_news against a provider with some pages
InitPages ==
    /\ core_idle
    /\ idle_beside_np
    /\ np_pages \in UNION { [1..n -> PagePosts] : n \in 1..MaxPages }
    /\ np_pc = "fetching"
    /\ np_url = 1
    /\ np_requests = <<>>
    /\ np_slept = 0
    /\ np_stories = <<>>

NextPages ==
    \E outcome \in Outcomes : get_news_turn(outcome)

SpecPages == InitPages /\ [][NextPages]_vars

\* a stream application with a sink, fed from one partition
InitSink ==
    /\ core_idle
    /\ idle_beside_sk
    /\ sk_sink \in Sinks
    /\ sk_partition \in SinkPartitions
    /\ sk_committed = 0
    /\ sk_position = 0
    /\ sk_batch = <<>>
    /\ sk_written = {}
    /\ sk_raised = NoError
    /\ sk_failed = {}
    /\ sk_paused = FALSE

NextSink ==
    \/ sink_add
    \/ \E outcome \in {"ok", "TimeoutError"} : sink_flush(outcome)
    \/ sink_resume

SpecSink == InitSink /\ [][NextSink]_vars

\* a candle and two trades, before a method is called
InitCandleOps ==
    /\ core_idle
    /\ idle_beside_cu
    /\ cu_pc = "ready"
    /\ cu_candle \in OpCandles
    /\ cu_trades \in OpTrades \X OpTrades
    /\ cu_window = <<>>
    /\ cu_results = <<>>
    /\ cu_closed = <<>>

NextCandleOps ==
    \/ Candle_update_both_orders
    \/ \E w \in OpWindows : Candle_close_window_twice(w[1], w[2])

SpecCandleOps == InitCandleOps /\ [][NextCandleOps]_vars

\* an object of one of the four classes, about to be produced
InitRoundTrip ==
    /\ core_idle
    /\ idle_beside_rt
    /\ rt_pc = "ready"
    /\ rt_kind \in SchemaKinds
    /\ rt_original \in RtObjects(rt_kind)
    /\ rt_wire = NoCandle
    /\ rt_parsed = NoCandle

NextRoundTrip ==
    \E lib \in JsonLibraries : round_trip(lib)

SpecRoundTrip == InitRoundTrip /\ [][NextRoundTrip]_vars

\* the historical source is started on a file
InitHistoricalNews ==
    /\ core_idle
    /\ idle_beside_hn
    /\ hn_pc = "head"
    /\ hn_file \in CsvFiles
    /\ hn_running = TRUE
    /\ hn_rows = <<>>
    /\ hn_passes = 0
    /\ hn_produced = <<>>

NextHistoricalNews ==
    \/ historical_read
    \/ historical_produce
    \/ historical_stop
    \/ historical_return

SpecHistoricalNews == InitHistoricalNews /\ [][NextHistoricalNews]_vars

\* ------------------------------------------------- history of a produced candle
\* the candle and the key of the i-th message of the candles topic
candle(i) == candles_topic[i].value
candle_key(i) == candles_topic[i].key

\* the trades of the i-th candle's window: the indices of the trades of its
\* key consumed up to its emission whose payload time lies in [start, end)
window_trades(i) ==
    { n \in 1..emitted_by[i] :
        /\ trades_topic[n].symbol = candle_key(i)
        /\ candle(i).start <= trades_topic[n].timestamp
        /\ trades_topic[n].timestamp < candle(i).end }

first_of(idx) == CHOOSE n \in idx : \A m \in idx : n <= m
last_of(idx)  == CHOOSE n \in idx : \A m \in idx : m <= n

RECURSIVE sum_volume(_)
sum_volume(idx) ==
    IF idx = {} THEN 0
    ELSE LET n == CHOOSE m \in idx : TRUE
         IN  trades_topic[n].volume + sum_volume(idx \ {n})

\* every candle the operator holds or has produced
all_candles ==
    { w.value : w \in UNION { windows[k] : k \in Symbols } }
      \cup { candle(i) : i \in 1..Len(candles_topic) }

ohlc_ordered(c) ==
    /\ c.low <= Min(c.open, c.close)
    /\ Min(c.open, c.close) <= Max(c.open, c.close)
    /\ Max(c.open, c.close) <= c.high

\* the largest payload time among the trades of a key consumed before the n-th
latest_before(n) ==
    LET earlier == { trades_topic[m].timestamp : m \in
                       { m \in 1..(n - 1) :
                           trades_topic[m].symbol = trades_topic[n].symbol } }
    IN  IF earlier = {} THEN 0
        ELSE CHOOSE t \in earlier : \A o \in earlier : o <= t

T == to_sec(settings.timeframe) * 1000

\* the n-th trade arrived after its window had expired on its key
is_late(n) ==
    ((trades_topic[n].timestamp \div T) * T) + T <= latest_before(n)

outputs_of(n) == { i \in 1..Len(candles_topic) : emitted_by[i] = n }

\* ------------------------------------------------------------------- claims

\* C1: every candle built by init followed by any number of updates, held in
\* a window or produced, has low <= min(open, close) <= max(open, close)
\* <= high.
C1_OhlcOrdered == \A c \in all_candles : ohlc_ordered(c)

\* a candle updated at least twice, with low < close < high
C1_Witness ==
    \E c \in all_candles : c.low = c.open /\ c.low < c.close /\ c.close < c.high

\* C2: every produced candle has open = price of the first trade of its
\* window, close = price of the last, high = the maximum and low = the
\* minimum price of those trades, the trades taken in consumption order.
C2_OhlcOfWindow ==
    \A i \in 1..Len(candles_topic) :
        LET idx == window_trades(i)
        IN  /\ idx # {}
            /\ candle(i).open = trades_topic[first_of(idx)].price
            /\ candle(i).close = trades_topic[last_of(idx)].price
            /\ \A n \in idx : /\ trades_topic[n].price <= candle(i).high
                              /\ candle(i).low <= trades_topic[n].price
            /\ \E n \in idx : trades_topic[n].price = candle(i).high
            /\ \E n \in idx : trades_topic[n].price = candle(i).low

\* prices [1, 3, 2] in one window give open 1, high 3, low 1, close 2
C2_Witness ==
    \E i \in 1..Len(candles_topic) :
        /\ Cardinality(window_trades(i)) = 3
        /\ candle(i).open = 1 /\ candle(i).high = 3
        /\ candle(i).low = 1 /\ candle(i).close = 2

\* the trades of the i-th candle's key with a payload time in [start, end),
\* whenever they were consumed
trades_in_bounds(i) ==
    { n \in 1..Len(trades_topic) :
        /\ trades_topic[n].symbol = candle_key(i)
        /\ candle(i).start <= trades_topic[n].timestamp
        /\ trades_topic[n].timestamp < candle(i).end }

\* C3 as stated: a FULL candle's volume is the sum over exactly the trades of
\* its key with start <= timestamp < end, none of them omitted; a LIVE
\* candle's is the sum over the trades of the window consumed so far.
C3_VolumeOfAllInBounds ==
    \A i \in 1..Len(candles_topic) :
        candle(i).volume =
            sum_volume(IF settings.emission_mode = "FULL"
                       THEN trades_in_bounds(i) ELSE window_trades(i))

\* C3 (amended): every produced candle's volume is the sum of the volumes of
\* exactly the trades of its key with start <= timestamp < end consumed up
\* to its emission (in FULL mode: before the window expired; in LIVE mode:
\* the window so far), each counted once; a trade of the window consumed
\* after the window has expired is dropped and is in no candle.
C3_VolumeOfWindow ==
    \A i \in 1..Len(candles_topic) :
        candle(i).volume = sum_volume(window_trades(i))

\* a FULL candle of two or more trades, with volumes 2 and 1
C3_Witness ==
    \E i \in 1..Len(candles_topic) :
        /\ settings.emission_mode = "FULL"
        /\ Cardinality(window_trades(i)) >= 2
        /\ candle(i).volume = 3

\* C4: every produced candle has start = floor(t_first.timestamp / T) * T and
\* end - start = T, with T = to_sec(timeframe) * 1000 and t_first the first
\* trade of its window, by payload time.
C4_WindowBounds ==
    \A i \in 1..Len(candles_topic) :
        /\ candle(i).end - candle(i).start = T
        /\ window_trades(i) # {}
        /\ candle(i).start =
             (trades_topic[first_of(window_trades(i))].timestamp \div T) * T
        /\ candle(i).start = (candle(i).timestamp \div T) * T

\* a candle of the second 1m window
C4_Witness ==
    \E i \in 1..Len(candles_topic) :
        /\ candle(i).start = 60000 /\ candle(i).end = 120000
        /\ settings.timeframe = "1m"

\* C5 as stated: in LIVE mode exactly one candle per consumed trade.
C5_OnePerTrade ==
    settings.emission_mode = "LIVE" =>
        \A n \in 1..Len(trades_topic) : Cardinality(outputs_of(n)) = 1

\* C5 (amended): in LIVE mode every consumed trade whose window has not
\* expired on its key produces exactly one candle, carrying the window state
\* after that trade and the bounds of its window; a trade whose window has
\* expired produces none.
C5_OnePerAcceptedTrade ==
    settings.emission_mode = "LIVE" =>
        \A n \in 1..Len(trades_topic) :
            IF is_late(n)
            THEN outputs_of(n) = {}
            ELSE /\ Cardinality(outputs_of(n)) = 1
                 /\ \A i \in outputs_of(n) :
                      /\ candle_key(i) = trades_topic[n].symbol
                      /\ candle(i).timestamp = trades_topic[n].timestamp
                      /\ candle(i).close = trades_topic[n].price
                      /\ candle(i).start = (trades_topic[n].timestamp \div T) * T
                      /\ candle(i).end = candle(i).start + T
                      /\ candle(i).volume = sum_volume(window_trades(i))

\* three trades in one window: three emissions, the last the full aggregate
C5_Witness ==
    /\ settings.emission_mode = "LIVE"
    /\ Len(trades_topic) = 3
    /\ Len(candles_topic) = 3
    /\ Cardinality(window_trades(3)) = 3
    /\ candle(3).open = 1 /\ candle(3).high = 3 /\ candle(3).close = 2
    /\ candle(3).volume = 2

\* C6: in FULL mode at most one candle is produced per (key, window), only
\* once a message time at or past the window's end has been seen on the key,
\* and a trade whose timestamp is the end of a window (the first of its key
\* to reach that time) opens the next window and is not part of the prior
\* window's candle.
C6_FullOncePerWindow ==
    settings.emission_mode = "FULL" =>
        /\ \A i, j \in 1..Len(candles_topic) :
              (candle_key(i) = candle_key(j) /\ candle(i).start = candle(j).start)
                  => i = j
        /\ \A i \in 1..Len(candles_topic) :
              /\ trades_topic[emitted_by[i]].symbol = candle_key(i)
              /\ trades_topic[emitted_by[i]].timestamp >= candle(i).end
              /\ candle(i).timestamp < candle(i).end
              /\ emitted_by[i] \notin window_trades(i)
        /\ \A n \in 1..Len(trades_topic) :
              LET t == trades_topic[n]
              IN  ( /\ t.timestamp % T = 0
                    /\ latest_before(n) < t.timestamp
                    /\ \A m \in (n + 1)..Len(trades_topic) :
                          trades_topic[m].symbol # t.symbol )
                  => windows[t.symbol] =
                       { [start |-> t.timestamp, end |-> t.timestamp + T,
                          value |-> init(settings.timeframe, t)] }

\* the window [0, 60000) is produced when the trade at 60000 arrives, which
\* opens the window [60000, 120000)
C6_Witness ==
    /\ settings.emission_mode = "FULL"
    /\ \E i \in 1..Len(candles_topic) :
          /\ candle(i).end = 60000
          /\ trades_topic[emitted_by[i]].timestamp = 60000
          /\ Cardinality(window_trades(i)) = 2
          /\ emitted_by[i] = Len(trades_topic)
          /\ \E w \in windows[candle_key(i)] : w.start = 60000

\* C7 as stated: every produced candle has start and end set, start < end,
\* end - start = timeframe seconds * 1000, start <= timestamp <= end and
\* volume >= 0.
C7_CandleInvariants ==
    \A i \in 1..Len(candles_topic) :
        /\ candle(i).start # None /\ candle(i).end # None
        /\ candle(i).start < candle(i).end
        /\ candle(i).end - candle(i).start = to_sec(candle(i).timeframe) * 1000
        /\ candle(i).start <= candle(i).timestamp
        /\ candle(i).timestamp <= candle(i).end
        /\ candle(i).volume >= 0

\* C9: the list stored for a key never holds more than
\* max_candles_in_state candles, whatever candles the operator has processed.
C9_BufferBounded ==
    \A k \in Symbols : Len(ta_state[k]) <= MAX_CANDLES_IN_STATE

\* a full buffer from which the oldest candle has been removed
C9_Witness ==
    \E k \in Symbols :
        /\ Len(ta_state[k]) = MAX_CANDLES_IN_STATE
        /\ ta_popped > 0

\* C10 as stated: every candle that passes the compatibility filter yields
\* exactly one TechnicalAnalysis record carrying that candle's attributes,
\* and the stream does not fail on it.
C10_OneRecordPerCandle ==
    /\ ta_status = "running"
    /\ \A n \in 1..ta_consumed :
          \E i \in 1..Len(ta_topic) :
              /\ ta_topic[i].key = candle_key(n)
              /\ ta_topic[i].value.candle = candle(n)

\* C8: within a key the candles are produced in the order their trades were
\* consumed: no candle caused by a later trade precedes one caused by an
\* earlier trade.
C8_EmissionOrder ==
    \A i, j \in 1..Len(candles_topic) :
        (i < j /\ candle_key(i) = candle_key(j)) =>
            /\ emitted_by[i] <= emitted_by[j]
            /\ candle(i).start <= candle(j).start

\* two candles of one key caused by different trades
C8_Witness ==
    \E i, j \in 1..Len(candles_topic) :
        /\ i < j /\ candle_key(i) = candle_key(j)
        /\ emitted_by[i] < emitted_by[j]
        /\ candle(i).start < candle(j).start

\* ------------------------------------------------- the candle buffer, stepwise
\* what the claims call the last buffered candle of a key, its window and
\* whether a candle agrees with it in symbol and timeframe
last_buffered(key) == ta_state[key][Len(ta_state[key])]
same_symbol_and_timeframe(latest, key) ==
    /\ latest.symbol = last_buffered(key).symbol
    /\ latest.timeframe = last_buffered(key).timeframe
same_start_and_end(latest, key) ==
    /\ latest.start = last_buffered(key).start
    /\ latest.end = last_buffered(key).end

last_n(seq, n) ==
    IF Len(seq) <= n THEN seq ELSE SubSeq(seq, Len(seq) - n + 1, Len(seq))

C14_NullWithoutHistory ==
    \A i \in 1..Len(calc_result) :
        LET ta == calc_result[i]
            n  == Len(calc_args)
        IN  /\ 7 > n => ta.sma.sma_7 = NoValue
            /\ 14 > n => ta.sma.sma_14 = NoValue
            /\ 26 > n => /\ ta.macd.macd = NoValue
                         /\ ta.macd.macd_signal = NoValue
                         /\ ta.macd.macd_hist = NoValue
            /\ 9 > n => ta.rsi.rsi_9 = NoValue
            /\ 14 > n => ta.rsi.rsi_14 = NoValue
            /\ 21 > n => ta.rsi.rsi_21 = NoValue
            /\ 28 > n => ta.rsi.rsi_28 = NoValue

\* ------------------------------------------------------------ live news source
\* the stories a poll has produced, before its checkpoint
published == SubSeq(news_topic, news_flushed + 1, Len(news_topic))
\* the watermark the poll started from is still the committed one
is_new(story) == news_state = None \/ story.published_at > news_state

\* C16: a poll publishes exactly the fetched stories published after the
\* watermark, in ascending published_at order, and leaves the watermark at
\* the greatest published_at it published, or where it was when it published
\* nothing; the checkpoint stores that value.
C16_PollPublishesNewer ==
    /\ news_pc = "produced" =>
          /\ \A i \in 1..Len(published) :
                /\ published[i].key = "news"
                /\ is_new(published[i].value)
                /\ \E j \in 1..Len(news_fetched) :
                      news_fetched[j] = published[i].value
          /\ \A j \in 1..Len(news_fetched) :
                is_new(news_fetched[j]) =>
                    Cardinality({ i \in 1..Len(published) :
                        published[i].value = news_fetched[j] }) = 1
          /\ \A i, j \in 1..Len(published) :
                i < j => published[i].value.published_at
                            < published[j].value.published_at
          /\ news_last =
                IF published = <<>> THEN news_state
                ELSE CHOOSE m \in { published[i].value.published_at :
                                       i \in 1..Len(published) } :
                         \A i \in 1..Len(published) :
                             published[i].value.published_at <= m
    /\ news_pc = "polling" => news_state = news_last

\* polls of {A, B, C} and then {B, C, D} have published A, B, C and then D
\* alone, and the watermark is that of D
C16_Witness ==
    /\ news_pc = "produced"
    /\ news_polls = 2
    /\ [i \in 1..Len(news_fetched) |-> news_fetched[i].title]
          = <<"B", "C", "D">>
    /\ [i \in 1..Len(news_topic) |-> news_topic[i].value.title]
          = <<"A", "B", "C", "D">>
    /\ news_flushed = 3
    /\ news_state = 3
    /\ news_last = 4

\* C17 as stated: no story is on the topic twice, whatever the polls return
\* and wherever in the loop the source is stopped and started again.
C17_NeverPublishedTwice ==
    \A i, j \in 1..Len(news_topic) :
        i < j => news_topic[i].value # news_topic[j].value

\* ------------------------------------------------- historical REST pagination
\* C18 as stated: after a page whose last is at or beyond stop_ns, the wall
\* clock when the stream was started, no further page is requested.
C18_StopsAtStopNs ==
    \A sym \in Symbols :
        \A i \in 1..(Len(rest_pages[sym]) - 1) :
            rest_pages[sym][i].last < rest_stop_ns

\* C19: the first request of a pair has since = since_ns, and every later
\* request has as since the last of the page before it; the variable last
\* holds the cursor of the newest page.
C19_SinceIsPreviousLast ==
    \A sym \in Symbols :
        LET pages == rest_pages[sym]
        IN  /\ pages # <<>> => pages[1].since = rest_since_ns
            /\ \A i \in 2..Len(pages) : pages[i].since = pages[i - 1].last
            /\ rest_pc[sym] = "fetching" =>
                   rest_last[sym] = IF pages = <<>> THEN rest_since_ns
                                    ELSE pages[Len(pages)].last

\* a pair with three requests, each from a later cursor than the one before
C19_Witness ==
    \E sym \in Symbols :
        LET pages == rest_pages[sym]
        IN  /\ Len(pages) >= 3
            /\ pages[1].since = rest_since_ns
            /\ pages[1].since < pages[2].since
            /\ pages[2].since < pages[3].since

\* C20 as stated: once a pair got a page with an error array or a page
\* without trades, the stream does not end as if it had succeeded and
\* yields no trade.
C20_ErrorAndEmptyFatal ==
    (\E sym \in Symbols : \E i \in 1..Len(rest_pages[sym]) :
        rest_pages[sym][i].error \/ rest_pages[sym][i].trades = <<>>)
    => (rest_stream # "done" /\ rest_yielded = <<>>)

\* C21 as stated: when stream_trades has ended, every trade of every page a
\* pair fetched has been yielded exactly once.
C21_EveryFetchedTradeOnce ==
    rest_stream = "done" =>
        \A sym \in Symbols :
            \A i \in 1..Len(rest_pages[sym]) :
                \A k \in 1..Len(rest_pages[sym][i].trades) :
                    Cardinality({ n \in 1..Len(rest_yielded) :
                        /\ rest_yielded[n].symbol = sym
                        /\ rest_yielded[n].timestamp
                              = rest_pages[sym][i].trades[k] }) = 1

\* ------------------------------------------------------- live websocket client
\* the entries of the trade messages received, in arrival order
RECURSIVE entries_received(_)
entries_received(frames) ==
    IF frames = <<>> THEN <<>>
    ELSE (IF Head(frames).json /\ Head(frames).channel = "trade"
          THEN Head(frames).data ELSE <<>>) \o entries_received(Tail(frames))
\* the trades of the entries that are valid, each invalid entry skipped alone
RECURSIVE yield_trades_skipping_each(_)
yield_trades_skipping_each(data) ==
    IF data = <<>> THEN <<>>
    ELSE LET r == parse_into(Head(data))
         IN  (IF r.raised = "" THEN <<r.trade>> ELSE <<>>)
                \o yield_trades_skipping_each(Tail(data))


\* C22 as stated: the trades yielded are exactly the valid trades of the
\* trade messages received, in arrival order, whatever malformed messages,
\* other channels and invalid entries came with them, and none of these ends
\* the stream.
C22_InvalidSkippedOnly ==
    /\ ws_yielded = yield_trades_skipping_each(entries_received(ws_frames))
    /\ ws_close = "none" => ws_status = "open"

\* C23 as stated: after a normal close the sequence has ended without error,
\* after an abnormal close it has ended with an error raised to the consumer.
C23_AbnormalCloseSurfaced ==
    /\ ws_close = "ok" => ws_status = "ended"
    /\ ws_close = "error" => ws_status = "raised"

\* ------------------------------------------------------------ sentiment
\* an entry the sentiment operator may keep
is_allowed_entry(a) ==
    a.asset \in AssetValues /\ a.sentiment \in SentimentSignalValues

\* C24 as stated: the asset_sentiments of every analysis are exactly the
\* entries of the LLM whose asset is in the allowed set and whose sentiment is
\* BULLISH or BEARISH, in the order of the LLM.
C24_OnlyAllowedEntries ==
    \A i \in 1..Len(sa_analyses) :
        sa_analyses[i].analysis.asset_sentiments
            = SelectSeq(sa_analyses[i].llm, is_allowed_entry)

\* C25 as stated: an LLM output that cannot be parsed never leaves analyze as
\* an exception.
C25_FailureYieldsEmpty ==
    sa_status # "raised"

\* C26: encoded() of every analysis has the keys story, timestamp and
\* llm_model with the values of the analysis, and beside them exactly one key
\* per asset of asset_sentiments, whose value is 1 for a BULLISH and -1 for a
\* BEARISH entry of that asset.
C26_EncodedFlattens ==
    \A i \in 1..Len(sa_encoded) :
        LET e == sa_encoded[i]
            a == sa_analyses[i].analysis
            entries == a.asset_sentiments
        IN  /\ DOMAIN e = {"story", "timestamp", "llm_model"}
                  \cup { entries[j].asset : j \in 1..Len(entries) }
            /\ e["story"] = a.story
            /\ e["timestamp"] = a.timestamp
            /\ e["llm_model"] = a.llm_model
            /\ \A k \in DOMAIN e \ {"story", "timestamp", "llm_model"} :
                  \E j \in 1..Len(entries) :
                      /\ entries[j].asset = k
                      /\ e[k] = IF entries[j].sentiment = "BULLISH"
                                THEN 1 ELSE -1
\* an analysis whose last BTC entry is BEARISH has been encoded with BTC -1,
\* and one that kept no BTC entry has been encoded without the key BTC
C26_Witness ==
    /\ \E i \in 1..Len(sa_encoded) :
          /\ "BTC" \in DOMAIN sa_encoded[i]
          /\ sa_encoded[i]["BTC"] = -1
    /\ \E i \in 1..Len(sa_encoded) :
          /\ sa_analyses[i].llm # <<>>
          /\ "BTC" \notin DOMAIN sa_encoded[i]

\* ------------------------------------------------------- offset-reset policy
\* C27 as stated: a consumer started in LIVE mode has the policy latest and
\* reads only records that arrive after its start; one started in HISTORICAL
\* mode has the policy earliest and reads the topic from its first record;
\* for the trades flag and for the news flag.
C27_LiveLatestHistoricalEarliest ==
    cg_status = "started" =>
        /\ cg_mode = "LIVE" =>
              cg_policy = "latest" /\ cg_first = cg_start
        /\ cg_mode = "HISTORICAL" =>
              cg_policy = "earliest" /\ cg_first = 0

\* ---------------------------------------------------------- topics written
\* C28 as stated: every historical trade is in the topic
\* trades_historical_{jobId} of its job, every live trade in the live topic,
\* and no topic holds trades of two backfill jobs or both live and historical
\* trades.
C28_PerJobHistoricalTopic ==
    /\ \A i \in 1..Len(tp_produced) :
          tp_produced[i].topic =
              IF tp_produced[i].ingestion = "HISTORICAL"
              THEN topic_historical([topic |-> "trades",
                                     backfill_job_id |-> tp_produced[i].job])
              ELSE <<"trades">>
    /\ \A i, j \in 1..Len(tp_produced) :
          tp_produced[i].topic = tp_produced[j].topic =>
              /\ tp_produced[i].ingestion = tp_produced[j].ingestion
              /\ tp_produced[i].ingestion = "HISTORICAL" =>
                    tp_produced[i].job = tp_produced[j].job

\* ------------------------------------------------------------------ shutdown
\* C29: shutdown calls stop, then join, then kill, in this order and whether
\* or not stop raised; join waits at most 10 seconds; kill is called only for
\* a worker that is still alive when the 10 seconds have passed; and when
\* shutdown has returned the worker process is not running.
C29_StopJoinKill ==
    /\ sd_clock <= 10
    /\ sd_pc = "returned" =>
          /\ SelectSeq(sd_calls, LAMBDA c : c # "terminate")
                \in { <<"stop", "join">>, <<"stop", "join", "kill">> }
          /\ sd_calls[Len(sd_calls)] = "kill" =>
                sd_clock = 10 /\ sd_worker = "killed"
          /\ sd_worker \in {"exited", "killed"}
\* shutdown has returned after a stop request that raised and a worker that
\* outlived the timeout and was killed
C29_Witness ==
    /\ sd_pc = "returned"
    /\ sd_stop_raised
    /\ sd_clock = 10
    /\ sd_calls = <<"stop", "terminate", "join", "kill">>
    /\ sd_worker = "killed"

\* ------------------------------------------------------------ trade records
\* C30 as stated: every message of the trades topic that Trade.parse has
\* accepted and handed to the tumbling window has price > 0, volume > 0 and
\* timestamp >= 0.
C30_TradesPositive ==
    \A i \in 1..Len(trades_topic) :
        /\ trades_topic[i].price > 0
        /\ trades_topic[i].volume > 0
        /\ trades_topic[i].timestamp >= 0

\* ------------------------------------------------------ pages of a news poll
\* C31 as stated: a request that fails with a transport error is followed,
\* in the same call of get_news, by a second of sleep and a request of the
\* same URL, so get_news never returns on a transport error; a page without
\* results ends the call, which returns the stories fetched so far.
C31_TransportErrorRetried ==
    /\ \A i \in 1..Len(np_requests) :
          np_requests[i].outcome = "transport error" =>
              /\ np_slept >= 1
              /\ np_pc = "returned" =>
                    /\ i < Len(np_requests)
                    /\ np_requests[i + 1].url = np_requests[i].url
    /\ \A i \in 1..Len(np_requests) :
          np_requests[i].outcome = "no results" =>
              /\ i = Len(np_requests)
              /\ np_pc = "returned"

\* --------------------------------------------------------------------- sinks
\* C32: a write that times out raises a backpressure error with retry_after
\* 30 and the topic and partition of its batch; and no record is dropped:
\* every offset below the committed one is in the store, and the offsets from
\* the committed one on are in the batch or still to be read again.
C32_BackpressureKeepsRecords ==
    /\ sk_paused =>
          /\ sk_raised.error = "SinkBackpressureError"
          /\ sk_raised.retry_after = 30
          /\ sk_raised.topic = sk_partition.topic
          /\ sk_raised.partition = sk_partition.partition
    /\ \A o \in 0..(sk_committed - 1) : o \in sk_written
    /\ \A o \in sk_failed : o \in sk_written \/ o >= sk_committed
    /\ sk_batch = [i \in 1..(sk_position - sk_committed) |->
                      sk_committed + i - 1]
\* the records of a batch whose write timed out are all in the store after a
\* later write
C32_Witness ==
    /\ sk_failed # {}
    /\ sk_failed \subseteq sk_written
    /\ sk_raised = NoError

\* ------------------------------------------- order of updates, close_window
\* C33 as stated: update(t1) then update(t2) gives the same high, low and
\* volume as update(t2) then update(t1).
C33_UpdatesCommute ==
    cu_pc = "updated" =>
        /\ cu_results[1].high = cu_results[2].high
        /\ cu_results[1].low = cu_results[2].low
        /\ cu_results[1].volume = cu_results[2].volume

\* a sum that needs no rounding
is_exact(x) == round_to_float(x) = x

\* C33 amended: both orders give the same high and low, and the same volume
\* whenever no sum of the volumes is rounded; close and timestamp are those
\* of the trade applied last.
C33_CommuteUpToRounding ==
    cu_pc = "updated" =>
        LET c  == cu_candle
            t1 == cu_trades[1]
            t2 == cu_trades[2]
        IN  /\ cu_results[1].high = cu_results[2].high
            /\ cu_results[1].low = cu_results[2].low
            /\ (/\ is_exact(c.volume + t1.volume)
                /\ is_exact(c.volume + t2.volume)
                /\ is_exact(c.volume + t1.volume + t2.volume))
                  => cu_results[1].volume = cu_results[2].volume
            /\ cu_results[1].close = t2.price
            /\ cu_results[1].timestamp = t2.timestamp
            /\ cu_results[2].close = t1.price
            /\ cu_results[2].timestamp = t1.timestamp
\* two trades of different prices, the first older than the candle, have
\* been applied in both orders: same high, low and volume, another close
C33_Witness ==
    /\ cu_pc = "updated"
    /\ cu_trades[1].timestamp < cu_candle.timestamp
    /\ cu_trades[1].price # cu_trades[2].price
    /\ cu_trades[1].volume # cu_trades[2].volume
    /\ cu_results[1].volume = cu_results[2].volume
    /\ cu_results[1].high = 3 /\ cu_results[1].low = 1
    /\ cu_results[1].close # cu_results[2].close

\* C34: close_window(start, end) applied twice gives the candle that one
\* application gives, whose start and end are the arguments and whose other
\* fields are those of the candle it was called on.
C34_CloseWindowIdempotent ==
    cu_pc = "closed" =>
        /\ cu_closed[2] = cu_closed[1]
        /\ cu_closed[1].start = cu_window[1]
        /\ cu_closed[1].end = cu_window[2]
        /\ DOMAIN cu_closed[1] = DOMAIN cu_candle
        /\ \A f \in DOMAIN cu_candle \ {"start", "end"} :
              cu_closed[1][f] = cu_candle[f]
\* a candle without start and end has been closed with (60000, 120000)
C34_Witness ==
    /\ cu_pc = "closed"
    /\ cu_candle.start = None
    /\ cu_closed[2].start = 60000
    /\ cu_closed[2].end = 120000

\* ---------------------------------------------------------------- round trip
\* C35 as stated: the object parsed from the serialized form of a Trade,
\* Candle, TechnicalAnalysis or NewsStory is equal to the original.
C35_RoundTripIdentity ==
    rt_pc = "parsed" => Schema_eq(rt_parsed, rt_original)

\* ------------------------------------------------------ historical news source
\* the messages of the rows without empty cells, in file order
replay_of(file) ==
    [i \in 1..Len(dropna(file)) |-> row_message(dropna(file)[i])]

\* C36 as stated: the historical source produces each non-null row of the
\* file as one story keyed "news", in file order and once, and having
\* produced them all it finishes.
C36_ReplayOnceAndFinishes ==
    /\ Len(hn_produced) <= Len(replay_of(hn_file))
    /\ hn_produced = SubSeq(replay_of(hn_file), 1, Len(hn_produced))
    /\ (hn_pc = "head" /\ hn_passes > 0) => ~hn_running

\* ------------------------------------------------------------- news watermark
\* a watermark is not below another: None is below every published_at
not_below(a, b) == b = None \/ (a # None /\ a >= b)

\* C37: the value stored under the state key "last" never decreases, whatever
\* batches the polls return and wherever the source is started again.
C37_WatermarkNeverDecreases ==
    [][not_below(news_state', news_state)]_vars

\* after a poll of {C} the watermark is that of C; a second poll returns
\* the older batch {A, B} and the stored watermark is still that of C
C37_Witness ==
    /\ news_pc = "polling"
    /\ news_polls = 2
    /\ [i \in 1..Len(news_fetched) |-> news_fetched[i].title] = <<"A", "B">>
    /\ [i \in 1..Len(news_topic) |-> news_topic[i].value.title] = <<"C">>
    /\ news_state = 3

\* --------------------------------------------------- windows of the TA buffer
\* two candles of one window: same symbol, timeframe, start and end
of_one_window(a, b) ==
    /\ a.symbol = b.symbol
    /\ a.timeframe = b.timeframe
    /\ a.start = b.start
    /\ a.end = b.end

\* C38: in the list stored for a key no two adjacent candles are of the same
\* window, whatever candles the operator has processed.
C38_NoAdjacentSameWindow ==
    \A k \in Symbols :
        \A i \in 1..(Len(ta_state[k]) - 1) :
            ~of_one_window(ta_state[k][i], ta_state[k][i + 1])

\* a full buffer whose last candle was written over by a candle of its
\* window from another exchange
C38_Witness ==
    /\ ta_branch.path = "replaced"
    /\ Len(ta_state[ta_branch.key]) = MAX_CANDLES_IN_STATE
    /\ last_buffered(ta_branch.key).exchange # ta_branch.last_candle.exchange

\* ------------------------------------------------- historical REST stream
\* how often a trade is in a list
occurrences(trade, trades) ==
    Cardinality({ i \in 1..Len(trades) : trades[i] = trade })

\* C39: the stream yields nothing while the pagination loop of a pair is
\* still running; what it yields then is in non-decreasing timestamp order
\* and holds the fetched trades of every pair whose fetch succeeded, each as
\* often as fetched, also when the fetch of another pair failed, and no
\* trade of a pair whose fetch failed.
C39_YieldAfterGather ==
    /\ rest_stream = "gathering" => rest_yielded = <<>>
    /\ rest_stream = "done" =>
          /\ \A sym \in Symbols : rest_pc[sym] \in {"done", "failed"}
          /\ \A i, j \in 1..Len(rest_yielded) :
                i < j => rest_yielded[i].timestamp <= rest_yielded[j].timestamp
          /\ \A sym \in Symbols :
                IF rest_pc[sym] = "done"
                THEN /\ \A n \in 1..Len(rest_fetched[sym]) :
                          occurrences(rest_fetched[sym][n], rest_yielded)
                            = occurrences(rest_fetched[sym][n],
                                          rest_fetched[sym])
                     /\ Len(SelectSeq(rest_yielded,
                                      LAMBDA t : t.symbol = sym))
                           = Len(rest_fetched[sym])
                ELSE \A i \in 1..Len(rest_yielded) :
                         rest_yielded[i].symbol # sym

\* the fetch of BTCUSD failed after a page of trades, and the stream has
\* yielded the two trades of XRPUSD
C39_Witness ==
    /\ rest_stream = "done"
    /\ rest_pc["BTCUSD"] = "failed"
    /\ rest_fetched["BTCUSD"] # <<>>
    /\ rest_pc["XRPUSD"] = "done"
    /\ Len(rest_yielded) = 2

====
